---- MODULE Spec2Model ----
(***************************************************************************)
(* State-machine model of the BTC price live-stream server and its client  *)
(* (src/server/index.js): candle series store, second-price heartbeat,     *)
(* liquidation feed, cross-venue top-buyers aggregator, upstream           *)
(* connection supervisor and the socket.io fan-out.                        *)
(*                                                                         *)
(* Node runs every handler to completion on one thread, so each handler    *)
(* (a WebSocket event, a timer callback, the continuation of an await      *)
(* together with the promise reactions it triggers) is one action.         *)
(* Optional values (null in the source) are sequences of length 0 or 1:    *)
(* <<>> is null, <<v>> is the value v.  A raw wire value is <<n>> when     *)
(* Number(value) is the finite number n and <<>> otherwise.                *)
(***************************************************************************)
EXTENDS Integers, Sequences, FiniteSets, Bags, TLC

VARIABLES
    \* ---- candle series store (index.js:81-82)
    candles,              \* let candles = []
    latestClose,          \* let latestClose = null
    \* ---- second price (index.js:83-84, 114, 119)
    latestSecondPrice,    \* let latestSecondPrice = null
    latestSecondTs,       \* let latestSecondTs = null
    lastSecondBucket,     \* let lastSecondBucket = null
    secondHeartbeatTimer, \* <<>>, or <<t>>: the interval's next tick is due at t
    now,                  \* the local clock, Date.now()
    \* ---- liquidation feed (index.js:90)
    liquidations,         \* let liquidations = []
    \* ---- top buyers (index.js:86-89)
    topBuyers,            \* let topBuyers = []
    exchangeStatus,       \* let exchangeStatus = []
    topBuyersUpdatedAt,   \* let topBuyersUpdatedAt = null
    settled,              \* the refreshTopBuyersGlobal in flight: its tasks' outcomes
    refreshes,            \* the refreshes the timer started, in order: "pending" | "done"
    \* ---- the other aggregates a bootstrap reads (index.js:91-94)
    markets,              \* let markets = []
    fearGreed,            \* let fearGreed = null
    newsItems,            \* let newsItems = []
    \* ---- upstream connections (index.js:95-120)
    socketVar,            \* binanceSocket / forceSockets[id]: readyState of the socket held
    orphans,              \* per connection: live sockets the variable no longer holds
    reconnectAttempt,     \* reconnectAttempt / forceReconnectAttempts[id]
    reconnectTimer,       \* reconnectTimer / forceReconnectTimers[id]: <<>> or <<delay>>
    timerHandles,         \* per connection: reconnect setTimeout handles pending in the event loop
    liveOrphans,          \* per connection: unheld sockets that are OPEN or CONNECTING
    intervalTimers,       \* the setInterval timers that are set, by name
    isShuttingDown,       \* let isShuttingDown = false
    phase,                \* the httpServer.listen callback: "listening" | "running"
    \* ---- fan-out
    emitted,              \* the io.emit events of the handler that ran last
    inbox,                \* per subscriber: the messages delivered to it, in order
    subState,             \* per subscriber: "idle" | "streaming"
    \* ---- the browser client (App.jsx:448-452)
    secondData,           \* secondDataRef.current: [candles, volumes]
    latestPrice,          \* previousPriceRef.current and latestPriceRef.current
    \* ---- the watchdog process (obs-preset/README.md:28-181)
    watchdog,             \* its module state, and what the event loop and the OS hold for it
    \* ---- history variables (not program state)
    lastOp,               \* the handler that ran last, with its input
    accepted,             \* every liquidation retained so far, oldest first
    closes,               \* per connection: close events since its last open
    snap,                 \* per subscriber: the aggregates when its handler started
    secondHist,           \* what the second-price claims need of the past
    publishedBy           \* the refresh whose rows are published: its place in refreshes, or 0

candleVars == <<candles, latestClose>>
priceVars  == <<latestSecondPrice, latestSecondTs, lastSecondBucket, secondHist>>
clockVars  == <<now>>
liqVars    == <<liquidations, accepted>>
topVars    == <<topBuyers, exchangeStatus, topBuyersUpdatedAt>>
miscVars   == <<markets, fearGreed, newsItems>>
connVars   == <<socketVar, orphans, reconnectAttempt, reconnectTimer, timerHandles,
               liveOrphans, closes>>
subVars    == <<subState, snap>>
clientVars == <<secondData, latestPrice>>
cycleVars  == <<refreshes, publishedBy>>

vars == <<candles, latestClose, latestSecondPrice, latestSecondTs,
          lastSecondBucket, secondHeartbeatTimer, now, liquidations,
          topBuyers, exchangeStatus, topBuyersUpdatedAt, settled, markets,
          fearGreed, newsItems, socketVar, orphans, reconnectAttempt,
          reconnectTimer, timerHandles, liveOrphans, intervalTimers,
          isShuttingDown, phase, emitted,
          inbox, subState, secondData, latestPrice, lastOp, accepted, closes,
          snap, secondHist, refreshes, publishedBy, watchdog>>

----------------------------------------------------------------------------
(* Generic helpers *)

None == <<>>
Some(v) == <<v>>

Min(a, b) == IF a <= b THEN a ELSE b
Max(a, b) == IF a >= b THEN a ELSE b

Range(s) == {s[i] : i \in DOMAIN s}
Last(s) == s[Len(s)]

RECURSIVE Pow2(_)
Pow2(n) == IF n <= 0 THEN 1 ELSE 2 * Pow2(n - 1)

\* Array.prototype.slice(-n): the last n elements
SliceLast(s, n) == SubSeq(s, Max(1, Len(s) - n + 1), Len(s))

\* Array.prototype.slice(0, n): the first n elements
SliceFirst(s, n) == SubSeq(s, 1, Min(n, Len(s)))

\* All sequences over S of length at most n
SeqUpTo(S, n) == UNION {[1..k -> S] : k \in 0..n}

\* The bag of the elements of a sequence
BagOf(s) == [x \in Range(s) |-> Cardinality({i \in DOMAIN s : s[i] = x})]

\* function toNumber(value)
toNumber(value) == IF Len(value) = 1 THEN value[1] ELSE 0

----------------------------------------------------------------------------
(* Fan-out: io.emit reaches every subscriber whose connection handler has  *)
(* started.                                                                *)

Subs == {"s1", "s2"}

Ev(name, data) == [event |-> name, data |-> data, via |-> "io"]
Msg(name, data) == [event |-> name, data |-> data, via |-> "socket"]

Broadcast(events) ==
    /\ emitted' = events
    /\ inbox' = [s \in Subs |->
                    IF subState[s] = "idle" THEN inbox[s] ELSE inbox[s] \o events]

----------------------------------------------------------------------------
(* Program constants and model bounds *)

\* index.js:15 sets MAX_CANDLES = 200, index.js:18 MAX_LIQUIDATIONS = 30 and
\* index.js:16 TOP_BUYERS_LIMIT = 12.  The model runs the same code with
\* capacities small enough for eviction and truncation to happen.
MAX_CANDLES == 2
MAX_LIQUIDATIONS == 2
TOP_BUYERS_LIMIT == 2

MIN_LIQUIDATION_NOTIONAL_USD == 100000
RECONNECT_BASE_DELAY_MS == 1000
RECONNECT_MAX_DELAY_MS == 15000

\* Math.floor(ts / 1_000) and setInterval(..., 1_000)
SECOND_MS == 1000

\* MIN_TOP_BUYER_BTC = 0.1, with sizes counted in hundredths of a BTC
MIN_TOP_BUYER_CENTI_BTC == 10

\* The local clock stops at MaxSeconds seconds.
MaxSeconds == 4

\* Liquidations pushed in one run.
MaxPushed == 4

\* A connection's consecutive reconnect attempts stop at MaxAttempts.
MaxAttempts == 5

\* Messages a subscriber is followed for.
MaxInbox == 9

\* App.jsx:34 sets MAX_SECOND_CANDLES = 240; the model keeps a series short
\* enough for slice(-maxItems) to drop candles.
MAX_SECOND_CANDLES == 2

\* App.jsx:36, and the literal 1_000 of pollPrice (App.jsx:1122)
SECOND_CANDLE_INTERVAL_MS == 10000
POLL_CANDLE_INTERVAL_MS == 1000

\* The quantity summed into one volume bar stops at MaxClientQty.
MaxClientQty == 3

\* README.md:34, const MAX_FAIL_STREAK = 3
MAX_FAIL_STREAK == 3

\* Most children the watchdog spawns for a service, and most health checks
\* of a service in flight at once
MaxSpawns == 3
MaxChecks == 2

\* Most top-buyers refreshes the timer starts
MaxRefreshes == 4

----------------------------------------------------------------------------
(* Candle series store *)

normalizeWsKline(kline) ==
    [startTime |-> toNumber(kline.t),
     open      |-> toNumber(kline.o),
     high      |-> toNumber(kline.h),
     low       |-> toNumber(kline.l),
     close     |-> toNumber(kline.c),
     volume    |-> toNumber(kline.v),
     isClosed  |-> kline.x]

normalizeRestKline(entry) ==
    [startTime |-> toNumber(entry[1]),
     open      |-> toNumber(entry[2]),
     high      |-> toNumber(entry[3]),
     low       |-> toNumber(entry[4]),
     close     |-> toNumber(entry[5]),
     volume    |-> toNumber(entry[6]),
     isClosed  |-> TRUE]

\* Array.prototype.sort((a, b) => a.startTime - b.startTime): a stable sort
InsertByStartTime(sorted, x) ==
    LET k == Cardinality({i \in DOMAIN sorted : sorted[i].startTime <= x.startTime})
    IN  SubSeq(sorted, 1, k) \o <<x>> \o SubSeq(sorted, k + 1, Len(sorted))

RECURSIVE SortByStartTime(_)
SortByStartTime(s) ==
    IF s = <<>> THEN <<>>
    ELSE InsertByStartTime(SortByStartTime(SubSeq(s, 1, Len(s) - 1)), s[Len(s)])

\* candles.findIndex((item) => item.startTime === startTime), 0 for -1
FindIndex(cs, startTime) ==
    IF \E i \in DOMAIN cs : cs[i].startTime = startTime
    THEN CHOOSE i \in DOMAIN cs :
            /\ cs[i].startTime = startTime
            /\ \A j \in 1..(i - 1) : cs[j].startTime # startTime
    ELSE 0

\* setCandles that merges the new candles into the series it holds
setCandlesMerging(nextCandles) ==
    SliceLast(SortByStartTime(candles \o nextCandles), MAX_CANDLES)

\* setCandles(nextCandles): the new value of candles
setCandles(nextCandles) == SliceLast(SortByStartTime(nextCandles), MAX_CANDLES)

\* upsertCandle without the re-sort after the push
upsertCandleNoSort(cs, candle) ==
    LET idx == FindIndex(cs, candle.startTime)
    IN  IF idx >= 1 THEN [cs EXCEPT ![idx] = candle]
        ELSE SliceLast(Append(cs, candle), MAX_CANDLES)

\* upsertCandle that trims with slice(0, MAX_CANDLES): the newest is dropped
upsertCandleKeepsOldest(cs, candle) ==
    LET idx == FindIndex(cs, candle.startTime)
    IN  IF idx >= 1 THEN [cs EXCEPT ![idx] = candle]
        ELSE SliceFirst(SortByStartTime(Append(cs, candle)), MAX_CANDLES)

\* upsertCandle(candle): the new value of candles
upsertCandle(cs, candle) ==
    LET idx == FindIndex(cs, candle.startTime)
    IN  IF idx >= 1 THEN [cs EXCEPT ![idx] = candle]
        ELSE SliceLast(SortByStartTime(Append(cs, candle)), MAX_CANDLES)

\* fetchMinuteHistoryFromBinance(): the value it resolves to for an array payload
fetchMinuteHistoryFromBinance(payload) ==
    SliceLast([i \in DOMAIN payload |-> normalizeRestKline(payload[i])], MAX_CANDLES)

\* syncMinuteHistory that does not compare the last candles
syncMinuteHistoryEveryTime(result, emitHistory) ==
    LET nextCandles == fetchMinuteHistoryFromBinance(result.payload)
        new == setCandles(nextCandles)
        nowLast == Last(new)
    IN  IF result.ok /\ nextCandles # <<>>
        THEN [candles |-> new,
              latestClose |-> Some(nowLast.close),
              events |-> <<Ev("history", new),
                           Ev("kline", nowLast),
                           Ev("price", [close |-> nowLast.close,
                                        startTime |-> nowLast.startTime,
                                        source |-> "minute"])>>]
        ELSE [candles |-> candles, latestClose |-> latestClose, events |-> <<>>]

\* syncMinuteHistory without the return on an empty series: the series is
\* replaced by the empty one and announced
syncMinuteHistoryOfEmptySeries(result, emitHistory) ==
    LET nextCandles == fetchMinuteHistoryFromBinance(result.payload)
        new == setCandles(nextCandles)
        changed ==
            \/ candles = <<>>
            \/ new = <<>>
            \/ Last(candles).startTime # Last(new).startTime
            \/ Last(candles).close # Last(new).close
            \/ Last(candles).volume # Last(new).volume
    IN  IF result.ok
        THEN [candles |-> new,
              latestClose |-> IF new = <<>> THEN latestClose ELSE Some(Last(new).close),
              events |->
                 IF new = <<>> THEN <<Ev("history", new)>>
                 ELSE IF emitHistory \/ changed
                 THEN <<Ev("history", new),
                        Ev("kline", Last(new)),
                        Ev("price", [close |-> Last(new).close,
                                     startTime |-> Last(new).startTime,
                                     source |-> "minute"])>>
                 ELSE <<>>]
        ELSE [candles |-> candles, latestClose |-> latestClose, events |-> <<>>]

\* syncMinuteHistory(emitHistory), from the resolution of the fetch on.  The
\* result is "failed" when the fetch rejects (network error, non-2xx, a body
\* that is no array): the catch branch changes nothing.  It gives the new
\* candles, latestClose and the events emitted.
syncMinuteHistory(result, emitHistory) ==
    LET nextCandles == fetchMinuteHistoryFromBinance(result.payload)
        new == setCandles(nextCandles)
        nowLast == Last(new)
        changed ==
            \/ candles = <<>>
            \/ Last(candles).startTime # nowLast.startTime
            \/ Last(candles).close # nowLast.close
            \/ Last(candles).volume # nowLast.volume
    IN  IF result.ok /\ nextCandles # <<>>
        THEN [candles |-> new,
              latestClose |-> Some(nowLast.close),
              events |->
                 IF emitHistory \/ changed
                 THEN <<Ev("history", new),
                        Ev("kline", nowLast),
                        Ev("price", [close |-> nowLast.close,
                                     startTime |-> nowLast.startTime,
                                     source |-> "minute"])>>
                 ELSE <<>>]
        ELSE [candles |-> candles, latestClose |-> latestClose, events |-> <<>>]

----------------------------------------------------------------------------
(* Second price and its heartbeat *)

\* Math.floor(ts / 1_000)
SecondBucket(ts) == ts \div SECOND_MS

\* emitSecondPrice without the bucket comparison
emitsSecondPriceAlways(bucket) == TRUE

\* emitSecondPrice(close, ts): whether the call reaches io.emit
emitsSecondPrice(bucket) == lastSecondBucket # Some(bucket)

\* emitSecondPrice(close, ts): the events it emits
emitSecondPrice(close, ts) ==
    IF emitsSecondPrice(SecondBucket(ts))
    THEN <<Ev("price", [close |-> close, ts |-> ts, source |-> "second"])>>
    ELSE <<>>

\* emitSecondPrice(close, ts): its assignments
SecondPriceAssign(close, ts) ==
    /\ latestSecondPrice' = Some(close)
    /\ latestSecondTs' = Some(ts)
    /\ lastSecondBucket' = Some(SecondBucket(ts))

----------------------------------------------------------------------------
(* Liquidation feed *)

\* pushLiquidation without the notional floor
acceptsLiquidationAlways(item) == TRUE

\* pushLiquidation(item): (item?.notional || 0) >= MIN_LIQUIDATION_NOTIONAL_USD
acceptsLiquidation(item) == item.notional >= MIN_LIQUIDATION_NOTIONAL_USD

\* pushLiquidation that appends instead of prepending
retainLiquidationAtEnd(list, item) ==
    SliceFirst(Append(list, item), MAX_LIQUIDATIONS)

\* pushLiquidation that skips an item equal to one it retains
retainLiquidationOnce(list, item) ==
    IF item \in Range(list) THEN list
    ELSE SliceFirst(<<item>> \o list, MAX_LIQUIDATIONS)

\* pushLiquidation(item): [item, ...liquidations].slice(0, MAX_LIQUIDATIONS)
retainLiquidation(list, item) == SliceFirst(<<item>> \o list, MAX_LIQUIDATIONS)

----------------------------------------------------------------------------
(* Upstream connections: "main" is binanceSocket (trades and klines), the  *)
(* others are forceSockets[id].  A socket's readyState is "CONNECTING",     *)
(* "OPEN" or "CLOSING"; "null" is the variable holding no socket.          *)

Conns == {"main", "binance", "bybit", "okx"}
ForceConns == {"binance", "bybit", "okx"}
\* The connections whose lifecycle events are followed
Followed == {"main", "bybit"}
Live == {"CONNECTING", "OPEN", "CLOSING"}

\* The backoff with the exponent one too high
backoffDelayOffByOne(attempt) ==
    Min(RECONNECT_BASE_DELAY_MS * Pow2(attempt), RECONNECT_MAX_DELAY_MS)

\* scheduleReconnect / scheduleForceReconnect: the delay of the attempt
backoffDelay(attempt) ==
    Min(RECONNECT_BASE_DELAY_MS * Pow2(Max(0, attempt - 1)), RECONNECT_MAX_DELAY_MS)

\* An open handler that leaves the counter alone
attemptAfterOpenKept(attempt) == attempt

\* The open handlers: reconnectAttempt = 0
attemptAfterOpen(attempt) == 0

\* A scheduleReconnect that does not look at isShuttingDown
SchedulesWhileShuttingDown(c) == reconnectTimer[c] = None

\* A scheduleReconnect that gives up after the first attempt
SchedulesFirstAttemptOnly(c) ==
    ~isShuttingDown /\ reconnectTimer[c] = None /\ reconnectAttempt[c] = 0

\* scheduleReconnect() / scheduleForceReconnect(exchangeId): whether it
\* goes past its first return
Schedules(c) == ~isShuttingDown /\ reconnectTimer[c] = None

\* A scheduleForceReconnect that counts its attempts in the main
\* connection's reconnectAttempt
scheduleReconnectShared(c) ==
    IF Schedules(c)
    THEN /\ reconnectAttempt' = [reconnectAttempt EXCEPT !["main"] = @ + 1]
         /\ reconnectTimer' =
              [reconnectTimer EXCEPT
                 ![c] = Some(backoffDelay(reconnectAttempt["main"] + 1))]
         /\ timerHandles' = [timerHandles EXCEPT ![c] = @ + 1]
    ELSE UNCHANGED <<reconnectAttempt, reconnectTimer, timerHandles>>

\* scheduleReconnect() / scheduleForceReconnect(exchangeId)
scheduleReconnect(c) ==
    IF Schedules(c)
    THEN /\ reconnectAttempt' = [reconnectAttempt EXCEPT ![c] = @ + 1]
         /\ reconnectTimer' =
              [reconnectTimer EXCEPT ![c] = Some(backoffDelay(reconnectAttempt[c] + 1))]
         /\ timerHandles' = [timerHandles EXCEPT ![c] = @ + 1]
    ELSE UNCHANGED <<reconnectAttempt, reconnectTimer, timerHandles>>

\* A connect that does not look at the socket it holds
ConnectsWhateverSocket(c) == ~isShuttingDown

\* connectBinanceWebSocket() / connect<Venue>ForceWebSocket(): whether it
\* goes past its returns and creates a socket
Connects(c) == ~isShuttingDown /\ socketVar[c] \notin {"OPEN", "CONNECTING"}

\* ... the socket the variable holds afterwards
socketAfterConnect(c) == IF Connects(c) THEN "CONNECTING" ELSE socketVar[c]

\* ... a socket that was still closing is replaced and lives on unheld
orphansAfterConnect(c) ==
    IF Connects(c) /\ socketVar[c] = "CLOSING" THEN orphans[c] + 1 ELSE orphans[c]

\* ... a socket that was open or connecting is replaced and lives on unheld
liveOrphansAfterConnect(c) ==
    IF Connects(c) /\ socketVar[c] \in {"OPEN", "CONNECTING"}
    THEN liveOrphans[c] + 1 ELSE liveOrphans[c]

\* ... clearReconnectTimer() / clearForceReconnectTimer(exchangeId)
timerAfterConnect(c, timer) == IF Connects(c) THEN None ELSE timer

\* ... clearTimeout(timer) cancels the handle the variable holds
handlesAfterConnect(c, timer) ==
    IF Connects(c) /\ timer # None THEN timerHandles[c] - 1 ELSE timerHandles[c]

\* A timer that fires again: setInterval in the place of setTimeout
handlesAfterFireRepeating(n) == n

\* setTimeout: the handle is gone once its callback runs
handlesAfterFire(n) == n - 1

\* the "open" handlers
Open(c) ==
    /\ socketVar[c] = "CONNECTING"
    /\ socketVar' = [socketVar EXCEPT ![c] = "OPEN"]
    /\ reconnectAttempt' = [reconnectAttempt EXCEPT ![c] = attemptAfterOpen(@)]
    /\ closes' = [closes EXCEPT ![c] = [n |-> 0, prev |-> @.n]]
    /\ Broadcast(<<>>)
    /\ lastOp' = [op |-> "open", conn |-> c]
    /\ UNCHANGED <<candleVars, priceVars, clockVars, liqVars, topVars, settled,
                   miscVars, orphans, reconnectTimer, timerHandles, liveOrphans,
                   intervalTimers,
                   secondHeartbeatTimer, isShuttingDown, phase, subVars, clientVars, cycleVars, watchdog>>

\* The peer starts the closing handshake, or the socket errors: the "error"
\* handlers only log, and "close" follows.
SocketClosing(c) ==
    /\ socketVar[c] \in {"CONNECTING", "OPEN"}
    /\ socketVar' = [socketVar EXCEPT ![c] = "CLOSING"]
    /\ Broadcast(<<>>)
    /\ lastOp' = [op |-> "closing", conn |-> c]
    /\ UNCHANGED <<candleVars, priceVars, clockVars, liqVars, topVars, settled,
                   miscVars, orphans, reconnectAttempt, reconnectTimer,
                   timerHandles, liveOrphans, closes, intervalTimers,
                   secondHeartbeatTimer, isShuttingDown, phase, subVars, clientVars, cycleVars, watchdog>>

\* the "close" handlers, for the socket the variable holds
Close(c) ==
    /\ socketVar[c] \in Live
    /\ reconnectAttempt[c] < MaxAttempts
    /\ socketVar' = [socketVar EXCEPT ![c] = "null"]
    /\ scheduleReconnect(c)
    /\ closes' = [closes EXCEPT ![c].n = @ + 1]
    /\ Broadcast(<<>>)
    /\ lastOp' = [op |-> "close", conn |-> c]
    /\ UNCHANGED <<candleVars, priceVars, clockVars, liqVars, topVars, settled,
                   miscVars, orphans, liveOrphans, intervalTimers,
                   secondHeartbeatTimer, isShuttingDown, phase, subVars, clientVars, cycleVars, watchdog>>

\* the "close" handlers, for a socket the variable no longer holds: the
\* handler assigns null to the variable whatever it holds
OrphanClose(c) ==
    /\ orphans[c] > 0
    /\ reconnectAttempt[c] < MaxAttempts
    /\ orphans' = [orphans EXCEPT
                     ![c] = @ - 1 + (IF socketVar[c] \in Live THEN 1 ELSE 0)]
    /\ liveOrphans' = [liveOrphans EXCEPT
                         ![c] = @ + (IF socketVar[c] \in {"OPEN", "CONNECTING"}
                                     THEN 1 ELSE 0)]
    /\ socketVar' = [socketVar EXCEPT ![c] = "null"]
    /\ scheduleReconnect(c)
    /\ closes' = [closes EXCEPT ![c].n = @ + 1]
    /\ Broadcast(<<>>)
    /\ lastOp' = [op |-> "close", conn |-> c]
    /\ UNCHANGED <<candleVars, priceVars, clockVars, liqVars, topVars, settled,
                   miscVars, intervalTimers, secondHeartbeatTimer,
                   isShuttingDown, phase, subVars, clientVars, cycleVars, watchdog>>

\* The reconnect timer's callback: the timer variable is nulled, then connect.
ReconnectTimerFires(c) ==
    /\ timerHandles[c] > 0
    /\ timerHandles' = [timerHandles EXCEPT ![c] = handlesAfterFire(@)]
    /\ reconnectTimer' = [reconnectTimer EXCEPT ![c] = None]
    /\ socketVar' = [socketVar EXCEPT ![c] = socketAfterConnect(c)]
    /\ orphans' = [orphans EXCEPT ![c] = orphansAfterConnect(c)]
    /\ liveOrphans' = [liveOrphans EXCEPT ![c] = liveOrphansAfterConnect(c)]
    /\ Broadcast(<<>>)
    /\ lastOp' = [op |-> "reconnect", conn |-> c]
    /\ UNCHANGED <<candleVars, priceVars, clockVars, liqVars, topVars, settled,
                   miscVars, reconnectAttempt, closes, intervalTimers,
                   secondHeartbeatTimer, isShuttingDown, phase, subVars, clientVars, cycleVars, watchdog>>

\* shutdown(signal): terminate() leaves a socket closing until its "close"
\* event; the force sockets' variables are nulled at once.
Shutdown ==
    /\ ~isShuttingDown
    /\ isShuttingDown' = TRUE
    /\ reconnectTimer' = [c \in Conns |-> None]
    /\ timerHandles' = [c \in Conns |->
                           IF reconnectTimer[c] # None THEN timerHandles[c] - 1
                           ELSE timerHandles[c]]
    /\ intervalTimers' = {}
    /\ secondHeartbeatTimer' = None
    /\ socketVar' = [c \in Conns |->
                        IF c = "main" /\ socketVar[c] # "null" THEN "CLOSING"
                        ELSE "null"]
    /\ orphans' = [c \in Conns |->
                      IF c \in ForceConns /\ socketVar[c] # "null"
                      THEN orphans[c] + 1 ELSE orphans[c]]
    /\ Broadcast(<<>>)
    /\ lastOp' = [op |-> "shutdown"]
    /\ UNCHANGED <<candleVars, priceVars, clockVars, liqVars, topVars, settled,
                   liveOrphans,
                   miscVars, reconnectAttempt, closes, phase, subVars, clientVars, cycleVars, watchdog>>

----------------------------------------------------------------------------
(* Handlers of the main socket's messages *)

\* binanceSocket.on("message"), the @kline_1m branch
WsKline(kline) ==
    LET candle == normalizeWsKline(kline)
    IN  /\ socketVar["main"] = "OPEN"
        /\ candles' = upsertCandle(candles, candle)
        /\ latestClose' = Some(candle.close)
        /\ Broadcast(<<Ev("kline", candle)>>)
        /\ lastOp' = [op |-> "kline", candle |-> candle]
        /\ UNCHANGED <<priceVars, clockVars, liqVars, topVars, settled, miscVars,
                       connVars, intervalTimers, secondHeartbeatTimer,
                       isShuttingDown, phase, subVars, clientVars, cycleVars, watchdog>>

\* binanceSocket.on("message"), the @trade branch
WsTrade(data) ==
    LET close == toNumber(data.p)
        qty == toNumber(data.q)
        ts == IF toNumber(data.T) # 0 THEN toNumber(data.T) ELSE now
        second == emitSecondPrice(close, ts)
        bucket == SecondBucket(ts)
    IN  /\ socketVar["main"] = "OPEN"
        /\ IF close > 0
           THEN /\ SecondPriceAssign(close, ts)
                /\ Broadcast(second \o
                       <<Ev("trade", [price |-> close, qty |-> qty, ts |-> ts,
                                      side |-> IF data.m THEN "sell" ELSE "buy"])>>)
                /\ secondHist' =
                     [buckets |-> IF second # <<>>
                                  THEN secondHist.buckets \cup {bucket}
                                  ELSE secondHist.buckets,
                      dup |-> secondHist.dup
                                \/ (second # <<>> /\ bucket \in secondHist.buckets),
                      ticks |-> 0,
                      tickEmits |-> 0,
                      tickBuckets |-> {},
                      lastTradeTs |-> Some(ts),
                      firstTickAt |-> None]
           ELSE /\ Broadcast(<<>>)
                /\ UNCHANGED priceVars
        /\ lastOp' = [op |-> "trade", data |-> data]
        /\ UNCHANGED <<candleVars, clockVars, liqVars, topVars, settled, miscVars,
                       connVars, intervalTimers, secondHeartbeatTimer,
                       isShuttingDown, phase, subVars, clientVars, cycleVars, watchdog>>

\* The setInterval callback of startSecondHeartbeat, due every SECOND_MS
SecondHeartbeat ==
    /\ secondHeartbeatTimer = Some(now)
    /\ secondHeartbeatTimer' = Some(now + SECOND_MS)
    /\ IF latestSecondPrice = None
       THEN /\ Broadcast(<<>>)
            /\ UNCHANGED priceVars
       ELSE LET second == emitSecondPrice(latestSecondPrice[1], now)
                bucket == SecondBucket(now)
            IN  /\ SecondPriceAssign(latestSecondPrice[1], now)
                /\ Broadcast(second)
                /\ secondHist' =
                     [secondHist EXCEPT
                        !.buckets = IF second # <<>> THEN @ \cup {bucket} ELSE @,
                        !.dup = @ \/ (second # <<>> /\ bucket \in secondHist.buckets),
                        !.ticks = @ + 1,
                        !.tickEmits = IF second # <<>> THEN @ + 1 ELSE @,
                        !.tickBuckets = IF second # <<>> THEN @ \cup {bucket} ELSE @,
                        !.firstTickAt = IF secondHist.ticks = 0 THEN Some(now) ELSE @]
    /\ lastOp' = [op |-> "heartbeat"]
    /\ UNCHANGED <<candleVars, clockVars, liqVars, topVars, settled, miscVars,
                   connVars, intervalTimers, isShuttingDown, phase, subVars, clientVars, cycleVars, watchdog>>

\* Time passes, by a step or up to the heartbeat's next tick, never past it.
ClockSteps == {500}

Tick(d) ==
    /\ d > 0
    /\ now + d <= MaxSeconds * SECOND_MS
    /\ secondHeartbeatTimer # None => now + d <= secondHeartbeatTimer[1]
    /\ now' = now + d
    /\ Broadcast(<<>>)
    /\ lastOp' = [op |-> "clock"]
    /\ UNCHANGED <<candleVars, priceVars, liqVars, topVars, settled, miscVars,
                   connVars, intervalTimers, secondHeartbeatTimer,
                   isShuttingDown, phase, subVars, clientVars, cycleVars, watchdog>>

ClockAdvances ==
    \E d \in ClockSteps \cup
             (IF secondHeartbeatTimer = None THEN {}
              ELSE {secondHeartbeatTimer[1] - now}) : Tick(d)

----------------------------------------------------------------------------
(* Handlers of the force sockets' messages, as far as pushLiquidation *)

\* A "message" handler of forceSockets[c] that reaches pushLiquidation(item)
ForceOrder(c, item) ==
    /\ socketVar[c] = "OPEN"
    /\ IF acceptsLiquidation(item)
       THEN /\ Len(accepted) < MaxPushed
            /\ liquidations' = retainLiquidation(liquidations, item)
            /\ accepted' = Append(accepted, item)
            /\ Broadcast(<<Ev("liquidation", item)>>)
       ELSE /\ Broadcast(<<>>)
            /\ UNCHANGED liqVars
    /\ lastOp' = [op |-> "pushLiquidation", item |-> item, before |-> liquidations]
    /\ UNCHANGED <<candleVars, priceVars, clockVars, topVars, settled, miscVars,
                   connVars, intervalTimers, secondHeartbeatTimer,
                   isShuttingDown, phase, subVars, clientVars, cycleVars, watchdog>>

LiqItem(c, price, qty) ==
    [exchangeId |-> c, symbol |-> "BTCUSDT", side |-> "sell", price |-> price,
     qty |-> qty, notional |-> price * qty, ts |-> 0]

\* A field of a wire object: absent fields read as undefined
Field(entry, name) == IF name \in DOMAIN entry THEN entry[name] ELSE <<>>

\* pickFirstNumber that returns the first candidate that is present
pickFirstPresent(values) ==
    LET present == {i \in DOMAIN values : values[i] # <<>>}
    IN  IF present = {} THEN 0
        ELSE toNumber(values[CHOOSE i \in present : \A j \in present : i <= j])

\* pickFirstNumber(...values): the first candidate whose number is positive
RECURSIVE pickFirstNumber(_)
pickFirstNumber(values) ==
    IF values = <<>> THEN 0
    ELSE IF toNumber(Head(values)) > 0 THEN toNumber(Head(values))
    ELSE pickFirstNumber(Tail(values))

\* A call of pickFirstNumber on the candidate fields of a row; one call is
\* followed.
PickFirstNumber(values) ==
    /\ lastOp.op # "pickFirstNumber"
    /\ lastOp' = [op |-> "pickFirstNumber", values |-> values,
                  result |-> pickFirstNumber(values)]
    /\ UNCHANGED <<candleVars, priceVars, clockVars, liqVars, topVars, settled,
                   miscVars, connVars, intervalTimers, secondHeartbeatTimer,
                   isShuttingDown, phase, emitted, inbox, subVars, clientVars, cycleVars, watchdog>>

\* connectBybitForceWebSocket, "message": the item pushed for a row.  The
\* frames drawn carry no payload.ts, the last candidate of ts; Date.now()
\* is the clock.
bybitLiquidation(entry) ==
    LET ts == pickFirstNumber(<<Field(entry, "T"), Field(entry, "ts")>>)
        price == pickFirstNumber(<<Field(entry, "p"), Field(entry, "price")>>)
        qty == pickFirstNumber(<<Field(entry, "v"), Field(entry, "size"),
                                 Field(entry, "qty"), Field(entry, "q")>>)
    IN  [exchangeId |-> "bybit", symbol |-> "BTCUSDT", side |-> "sell",
         price |-> price, qty |-> qty, notional |-> price * qty,
         ts |-> IF ts # 0 THEN ts ELSE now]

\* connectOkxForceWebSocket, "message": the item pushed for a row
okxLiquidation(entry) ==
    LET ts == pickFirstNumber(<<Field(entry, "ts")>>)
        price == pickFirstNumber(<<Field(entry, "bkPx"), Field(entry, "px"),
                                   Field(entry, "fillPx"), Field(entry, "price")>>)
        qty == pickFirstNumber(<<Field(entry, "sz"), Field(entry, "qty"),
                                 Field(entry, "size"), Field(entry, "bkSz")>>)
        notional == pickFirstNumber(<<Field(entry, "notionalUsd"),
                                      Field(entry, "usdSz"), <<price * qty>> >>)
    IN  [exchangeId |-> "okx", symbol |-> "BTCUSDT", side |-> "sell",
         price |-> price, qty |-> qty, notional |-> notional,
         ts |-> IF ts # 0 THEN ts ELSE now]

----------------------------------------------------------------------------
(* The "message" handlers whole, from the raw frame on.  A frame is        *)
(* [json, payload]: whether JSON.parse accepts it, and the object parsed,  *)
(* whose absent fields are <<>>.  A string is kept by what the handler     *)
(* tests of it: the suffix of a stream name, the prefix of a topic.  The   *)
(* frames drawn carry at most one row.                                     *)

\* A handler that takes every parsed frame for one of its own
hasEnvelopeAny(c, payload) == TRUE

\* The tests a handler makes on the parsed frame before it reads the body:
\* !stream || !data; !order; String(topic).startsWith("liquidation.");
\* payload?.event, payload?.arg?.channel !== "liquidation-orders"
hasEnvelope(c, payload) ==
    CASE c = "main"    -> payload.stream # <<>> /\ payload.data # <<>>
      [] c = "binance" -> payload.o # <<>>
      [] c = "bybit"   -> payload.topic = <<"liquidation.">>
      [] OTHER         -> payload.event = <<>>
                          /\ payload.channel = <<"liquidation-orders">>

\* connectBinanceForceWebSocket, "message": the item pushed for an order.
\* order.ap || order.p takes ap when the field is there.
binanceLiquidation(order) ==
    LET ts == toNumber(Field(order, "T"))
        qty == toNumber(order.q)
        price == toNumber(IF order.ap # <<>> THEN order.ap ELSE order.p)
    IN  [exchangeId |-> "binance", symbol |-> "BTCUSDT", side |-> "sell",
         price |-> price, qty |-> qty, notional |-> price * qty,
         ts |-> IF ts # 0 THEN ts ELSE now]

\* The items a force handler brings to pushLiquidation: none when the body
\* has no row, when reading it throws, or when price or qty is not positive
forceItems(c, payload) ==
    LET rows == IF c = "binance" THEN payload.o ELSE payload.data
        item == CASE c = "binance" -> binanceLiquidation(rows[1])
                  [] c = "bybit"   -> bybitLiquidation(rows[1])
                  [] OTHER         -> okxLiquidation(rows[1])
    IN  IF rows = <<>> THEN <<>>
        ELSE IF item.price <= 0 \/ item.qty <= 0 \/ item.notional <= 0 THEN <<>>
        ELSE <<item>>

\* A frame that ends in the catch block or in a return before any effect
Dropped(c, raw) ==
    /\ Broadcast(<<>>)
    /\ lastOp' = [op |-> "message", conn |-> c, json |-> raw.json]
    /\ UNCHANGED <<candleVars, priceVars, clockVars, liqVars, topVars, settled,
                   miscVars, connVars, intervalTimers, secondHeartbeatTimer,
                   isShuttingDown, phase, subVars, clientVars, cycleVars, watchdog>>

\* binanceSocket.on("message") and forceSockets[c].on("message")
Message(c, raw) ==
    /\ socketVar[c] = "OPEN"
    /\ IF ~raw.json THEN Dropped(c, raw)
       ELSE IF ~hasEnvelope(c, raw.payload) THEN Dropped(c, raw)
       ELSE IF c = "main"
       THEN LET stream == raw.payload.stream
                data == raw.payload.data
            IN  IF stream = <<"@trade">> /\ data # <<>>
                THEN WsTrade(data[1])
                ELSE IF stream = <<"@kline_1m">> /\ data # <<>> /\ data[1].k # <<>>
                THEN WsKline(data[1].k[1])
                ELSE Dropped(c, raw)
       ELSE LET items == forceItems(c, raw.payload)
            IN  IF items = <<>> THEN Dropped(c, raw)
                ELSE ForceOrder(c, items[1])

----------------------------------------------------------------------------
(* Cross-venue top buyers *)

\* EXCHANGES, by id
EXCHANGES == <<"binance", "bybit", "okx", "kucoin">>

\* The filter without the size floor
KeepsBidOfAnySize(item) == item.price > 0

\* .filter((item) => item.price > 0 && item.size >= MIN_TOP_BUYER_BTC)
KeepsBid(item) == item.price > 0 /\ item.size >= MIN_TOP_BUYER_CENTI_BTC

\* Array.prototype.sort((a, b) => b.notional - a.notional): a stable sort
InsertByNotional(sorted, x) ==
    LET k == Cardinality({i \in DOMAIN sorted : sorted[i].notional >= x.notional})
    IN  SubSeq(sorted, 1, k) \o <<x>> \o SubSeq(sorted, k + 1, Len(sorted))

RECURSIVE SortByNotional(_)
SortByNotional(s) ==
    IF s = <<>> THEN <<>>
    ELSE InsertByNotional(SortByNotional(SubSeq(s, 1, Len(s) - 1)), s[Len(s)])

\* mapRawBidsToRows(rawBids, exchange)
mapRawBidsToRows(rawBids, exchange) ==
    LET rows == [i \in DOMAIN rawBids |->
                    [exchangeId |-> exchange,
                     price |-> toNumber(rawBids[i][1]),
                     size |-> toNumber(rawBids[i][2]),
                     notional |-> toNumber(rawBids[i][1]) * toNumber(rawBids[i][2])]]
    IN  SliceFirst(SortByNotional(SelectSeq(rows, KeepsBid)), TOP_BUYERS_LIMIT)

\* fetchBinanceBids / fetchBybitBids / fetchOkxBids / fetchKucoinBids: how the
\* task settles on a response.  A response is a network error, a non-2xx
\* status, a body that is no JSON, or a JSON body with or without the bids
\* array.
fetchBids(exchange, response) ==
    CASE response.kind = "network" ->
            [status |-> "rejected", reason |-> "fetch failed", value |-> <<>>]
      [] response.kind = "http" ->
            [status |-> "rejected", reason |-> "HTTP 500", value |-> <<>>]
      [] response.kind = "notjson" ->
            [status |-> "rejected", reason |-> "Unexpected token", value |-> <<>>]
      [] response.kind = "json" ->
            [status |-> "fulfilled", reason |-> "",
             value |-> mapRawBidsToRows(
                          IF response.bids = None THEN <<>> ELSE response.bids[1],
                          exchange)]

\* A call of mapRawBidsToRows on the bid list of a venue's order book; one
\* call is followed.
MapRawBids(rawBids) ==
    /\ lastOp.op # "mapRawBidsToRows"
    /\ lastOp' = [op |-> "mapRawBidsToRows", rawBids |-> rawBids,
                  rows |-> mapRawBidsToRows(rawBids, "binance")]
    /\ UNCHANGED <<candleVars, priceVars, clockVars, liqVars, topVars, settled,
                   miscVars, connVars, intervalTimers, secondHeartbeatTimer,
                   isShuttingDown, phase, emitted, inbox, subVars, clientVars, cycleVars, watchdog>>

\* A task of Promise.allSettled that has not settled; response is the
\* response a settled task got (a history field)
Pending == [status |-> "pending", reason |-> "", value |-> <<>>, response |-> None]

\* The outcome of a task, with the response that produced it
Settled(exchange, response) ==
    LET outcome == fetchBids(exchange, response)
    IN  [status |-> outcome.status, reason |-> outcome.reason,
         value |-> outcome.value, response |-> Some(response)]

RECURSIVE Concat(_)
Concat(ss) == IF ss = <<>> THEN <<>> ELSE ss[1] \o Concat(Tail(ss))

\* refreshTopBuyersGlobal that merges without the global re-sort
mergeTopBuyersUnsorted(results) ==
    SliceFirst(Concat([i \in DOMAIN results |-> results[i].value]), TOP_BUYERS_LIMIT)

\* refreshTopBuyersGlobal, lines 320-338: the rows published for the settled tasks
mergeTopBuyers(results) ==
    SliceFirst(
        SortByNotional(Concat([i \in DOMAIN results |->
            IF results[i].status = "fulfilled" THEN results[i].value ELSE <<>>])),
        TOP_BUYERS_LIMIT)

\* refreshTopBuyersGlobal, lines 322-336: the status published
statusOf(results) ==
    [i \in DOMAIN results |->
        IF results[i].status = "fulfilled"
        THEN [exchange |-> EXCHANGES[i], status |-> "ok", error |-> ""]
        ELSE [exchange |-> EXCHANGES[i], status |-> "error",
              error |-> results[i].reason]]

TopBuyersPayload(rows, status, updatedAt) ==
    [updatedAt |-> updatedAt, rows |-> rows, exchanges |-> status]

\* The setInterval callback of startTopBuyersSync: refreshTopBuyersGlobal()
\* starts its four fetches.  One refresh is followed at a time.
TopBuyersTimerFires ==
    /\ "topBuyers" \in intervalTimers
    /\ settled = <<>>
    /\ settled' = [i \in DOMAIN EXCHANGES |-> Pending]
    /\ Broadcast(<<>>)
    /\ lastOp' = [op |-> "refreshTopBuyers"]
    /\ UNCHANGED <<candleVars, priceVars, clockVars, liqVars, topVars, miscVars,
                   connVars, intervalTimers, secondHeartbeatTimer,
                   isShuttingDown, phase, subVars, clientVars, cycleVars, watchdog>>

\* A refresh that publishes the rows merged so far whenever a task settles,
\* and the status once all have
FetchSettlesIncremental(i, response) ==
    /\ settled # <<>>
    /\ settled[i].status = "pending"
    /\ LET results == [settled EXCEPT ![i] = Settled(EXCHANGES[i], response)]
       IN  IF \A j \in DOMAIN results : results[j].status \in {"fulfilled", "rejected"}
           THEN /\ topBuyers' = mergeTopBuyers(results)
                /\ exchangeStatus' = statusOf(results)
                /\ topBuyersUpdatedAt' = Some(now)
                /\ settled' = <<>>
                /\ Broadcast(<<Ev("topBuyers",
                      TopBuyersPayload(mergeTopBuyers(results), statusOf(results),
                                       Some(now)))>>)
                /\ lastOp' = [op |-> "publishTopBuyers", results |-> results]
           ELSE /\ settled' = results
                /\ topBuyers' = mergeTopBuyers(results)
                /\ Broadcast(<<>>)
                /\ lastOp' = [op |-> "fetchSettles"]
                /\ UNCHANGED <<exchangeStatus, topBuyersUpdatedAt>>
    /\ UNCHANGED <<candleVars, priceVars, clockVars, liqVars, miscVars, connVars,
                   intervalTimers, secondHeartbeatTimer, isShuttingDown, phase,
                   subVars, clientVars, cycleVars, watchdog>>

\* One fetch task settles.  When it is the last one, Promise.allSettled
\* resolves and the rest of refreshTopBuyersGlobal runs in the same turn.
FetchSettles(i, response) ==
    /\ settled # <<>>
    /\ settled[i].status = "pending"
    /\ LET results == [settled EXCEPT ![i] = Settled(EXCHANGES[i], response)]
       IN  IF \A j \in DOMAIN results : results[j].status \in {"fulfilled", "rejected"}
           THEN /\ topBuyers' = mergeTopBuyers(results)
                /\ exchangeStatus' = statusOf(results)
                /\ topBuyersUpdatedAt' = Some(now)
                /\ settled' = <<>>
                /\ Broadcast(<<Ev("topBuyers",
                      TopBuyersPayload(mergeTopBuyers(results), statusOf(results),
                                       Some(now)))>>)
                /\ lastOp' = [op |-> "publishTopBuyers", results |-> results]
           ELSE /\ settled' = results
                /\ Broadcast(<<>>)
                /\ lastOp' = [op |-> "fetchSettles"]
                /\ UNCHANGED topVars
    /\ UNCHANGED <<candleVars, priceVars, clockVars, liqVars, miscVars, connVars,
                   intervalTimers, secondHeartbeatTimer, isShuttingDown, phase,
                   subVars, clientVars, cycleVars, watchdog>>

\* The setInterval callback of startTopBuyersSync, whatever the refreshes
\* before it are doing: nothing in it looks at a refresh in flight.  Each
\* call of refreshTopBuyersGlobal has its own tasks and awaits its own
\* Promise.allSettled; the refreshes the timer starts are followed whole.
TimerStartsRefresh ==
    /\ "topBuyers" \in intervalTimers
    /\ Len(refreshes) < MaxRefreshes
    /\ refreshes' = Append(refreshes, "pending")
    /\ Broadcast(<<>>)
    /\ lastOp' = [op |-> "refreshTopBuyers"]
    /\ UNCHANGED <<candleVars, priceVars, clockVars, liqVars, topVars, settled,
                   miscVars, connVars, intervalTimers, secondHeartbeatTimer,
                   isShuttingDown, phase, subVars, clientVars, publishedBy, watchdog>>

\* Promise.allSettled of refresh n resolves with results, and the rest of
\* refreshTopBuyersGlobal (lines 320-348) runs
RefreshResolves(n, results) ==
    /\ n \in DOMAIN refreshes
    /\ refreshes[n] = "pending"
    /\ refreshes' = [refreshes EXCEPT ![n] = "done"]
    /\ publishedBy' = n
    /\ topBuyers' = mergeTopBuyers(results)
    /\ exchangeStatus' = statusOf(results)
    /\ topBuyersUpdatedAt' = Some(now)
    /\ Broadcast(<<Ev("topBuyers",
          TopBuyersPayload(mergeTopBuyers(results), statusOf(results), Some(now)))>>)
    /\ lastOp' = [op |-> "publishTopBuyers", results |-> results]
    /\ UNCHANGED <<candleVars, priceVars, clockVars, liqVars, settled, miscVars,
                   connVars, intervalTimers, secondHeartbeatTimer, isShuttingDown,
                   phase, subVars, clientVars, watchdog>>

\* The fetch of a task never completes: no response, and no timeout in
\* fetch<Venue>Bids ends it.  The task stays unsettled for good.
FetchHangs(i) ==
    /\ settled # <<>>
    /\ settled[i].status = "pending"
    /\ settled' = [settled EXCEPT ![i].status = "hung"]
    /\ Broadcast(<<>>)
    /\ lastOp' = [op |-> "fetchHangs"]
    /\ UNCHANGED topVars
    /\ UNCHANGED <<candleVars, priceVars, clockVars, liqVars, miscVars, connVars,
                   intervalTimers, secondHeartbeatTimer, isShuttingDown, phase,
                   subVars, clientVars, cycleVars, watchdog>>

----------------------------------------------------------------------------
(* Markets, sentiment and news: the refreshes, from their last await on.   *)
(* The rows are opaque here; a failed refresh changes nothing.             *)

\* refreshMarkets(), lines 433-435
RefreshMarkets(rows) ==
    /\ "markets" \in intervalTimers
    /\ markets' = rows
    /\ Broadcast(<<Ev("markets", [updatedAt |-> now, rows |-> rows])>>)
    /\ lastOp' = [op |-> "refreshMarkets"]
    /\ UNCHANGED <<candleVars, priceVars, clockVars, liqVars, topVars, settled,
                   fearGreed, newsItems, connVars, intervalTimers,
                   secondHeartbeatTimer, isShuttingDown, phase, subVars, clientVars, cycleVars, watchdog>>

\* refreshFearGreed(), lines 462-467
RefreshFearGreed(reading) ==
    /\ "fear" \in intervalTimers
    /\ fearGreed' = Some(reading)
    /\ Broadcast(<<Ev("fearGreed", reading)>>)
    /\ lastOp' = [op |-> "refreshFearGreed"]
    /\ UNCHANGED <<candleVars, priceVars, clockVars, liqVars, topVars, settled,
                   markets, newsItems, connVars, intervalTimers,
                   secondHeartbeatTimer, isShuttingDown, phase, subVars, clientVars, cycleVars, watchdog>>

NEWS_LIMIT == 10

\* getLatestNews(limit)
getLatestNews(limit) == SliceFirst(newsItems, limit)

\* refreshNews(), lines 585-593
RefreshNews(items) ==
    /\ "news" \in intervalTimers
    /\ newsItems' = items
    /\ Broadcast(<<Ev("news", [updatedAt |-> now, rows |-> getLatestNews(NEWS_LIMIT)'])>>)
    /\ lastOp' = [op |-> "refreshNews"]
    /\ UNCHANGED <<candleVars, priceVars, clockVars, liqVars, topVars, settled,
                   markets, fearGreed, connVars, intervalTimers,
                   secondHeartbeatTimer, isShuttingDown, phase, subVars, clientVars, cycleVars, watchdog>>

----------------------------------------------------------------------------
(* Subscribers *)

\* io.on("connection"), lines 970-982: history and price
BootstrapHead ==
    (IF Len(candles) > 0 THEN <<Msg("history", candles)>> ELSE <<>>)
    \o (IF latestSecondPrice # None
        THEN <<Msg("price", [close |-> latestSecondPrice[1],
                             ts |-> latestSecondTs,
                             source |-> "second"])>>
        ELSE IF latestClose # None
        THEN <<Msg("price", [close |-> latestClose[1],
                             startTime |-> IF candles = <<>> THEN None
                                           ELSE Some(Last(candles).startTime),
                             source |-> "minute"])>>
        ELSE <<>>)

\* io.on("connection"), lines 984-1009: the other aggregates
BootstrapTail ==
    <<Msg("topBuyers", TopBuyersPayload(topBuyers, exchangeStatus, topBuyersUpdatedAt)),
      Msg("liquidations", [updatedAt |-> now, rows |-> liquidations]),
      Msg("markets", [updatedAt |-> now, rows |-> markets])>>
    \o (IF fearGreed # None THEN <<Msg("fearGreed", fearGreed[1])>> ELSE <<>>)
    \o <<Msg("news", [updatedAt |-> now, rows |-> getLatestNews(NEWS_LIMIT)])>>

\* The aggregates a bootstrap reads
Aggregates ==
    [candles |-> candles, latestClose |-> latestClose,
     latestSecondPrice |-> latestSecondPrice, latestSecondTs |-> latestSecondTs,
     topBuyers |-> topBuyers, exchangeStatus |-> exchangeStatus,
     topBuyersUpdatedAt |-> topBuyersUpdatedAt, liquidations |-> liquidations,
     markets |-> markets, fearGreed |-> fearGreed, newsItems |-> newsItems,
     now |-> now]

\* A connection handler that yields to the event loop after the price
\* message: the subscriber is "mid" while the rest is outstanding.
OnConnectionYielding(s) ==
    /\ \/ /\ subState[s] = "idle"
          /\ subState' = [subState EXCEPT ![s] = "mid"]
          /\ snap' = [snap EXCEPT ![s] = Some(Aggregates)]
          /\ inbox' = [inbox EXCEPT ![s] = BootstrapHead]
       \/ /\ subState[s] = "mid"
          /\ subState' = [subState EXCEPT ![s] = "streaming"]
          /\ snap' = snap
          /\ inbox' = [inbox EXCEPT ![s] = @ \o BootstrapTail]
    /\ emitted' = <<>>
    /\ lastOp' = [op |-> "connection", sub |-> s]
    /\ UNCHANGED <<candleVars, priceVars, clockVars, liqVars, topVars, settled,
                   miscVars, connVars, intervalTimers, secondHeartbeatTimer,
                   isShuttingDown, phase, clientVars, cycleVars, watchdog>>

\* A connection handler that serves a subscriber only once candles are known
OnConnectionAfterHistory(s) ==
    /\ candles # <<>>
    /\ subState[s] = "idle"
    /\ subState' = [subState EXCEPT ![s] = "streaming"]
    /\ snap' = [snap EXCEPT ![s] = Some(Aggregates)]
    /\ inbox' = [inbox EXCEPT ![s] = BootstrapHead \o BootstrapTail]
    /\ emitted' = <<>>
    /\ lastOp' = [op |-> "connection", sub |-> s]
    /\ UNCHANGED <<candleVars, priceVars, clockVars, liqVars, topVars, settled,
                   miscVars, connVars, intervalTimers, secondHeartbeatTimer,
                   isShuttingDown, phase, clientVars, cycleVars, watchdog>>

\* io.on("connection", (socket) => ...): one synchronous handler
OnConnection(s) ==
    /\ subState[s] = "idle"
    /\ subState' = [subState EXCEPT ![s] = "streaming"]
    /\ snap' = [snap EXCEPT ![s] = Some(Aggregates)]
    /\ inbox' = [inbox EXCEPT ![s] = BootstrapHead \o BootstrapTail]
    /\ emitted' = <<>>
    /\ lastOp' = [op |-> "connection", sub |-> s]
    /\ UNCHANGED <<candleVars, priceVars, clockVars, liqVars, topVars, settled,
                   miscVars, connVars, intervalTimers, secondHeartbeatTimer,
                   isShuttingDown, phase, clientVars, cycleVars, watchdog>>

----------------------------------------------------------------------------
(* Startup and the periodic history resync *)

Failed == [ok |-> FALSE, payload |-> <<>>]
Fetched(payload) == [ok |-> TRUE, payload |-> payload]

\* The httpServer.listen callback, from the resolution of
\* await syncMinuteHistory(true) on: the sync's own synchronous block and the
\* callback's continuation run in the same turn.
Listen(result) ==
    LET sync == syncMinuteHistory(result, TRUE)
    IN  /\ phase = "listening"
        /\ phase' = "running"
        /\ candles' = sync.candles
        /\ latestClose' = sync.latestClose
        /\ Broadcast(sync.events)
        /\ socketVar' = [c \in Conns |-> socketAfterConnect(c)]
        /\ orphans' = [c \in Conns |-> orphansAfterConnect(c)]
        /\ liveOrphans' = [c \in Conns |-> liveOrphansAfterConnect(c)]
        /\ reconnectTimer' = [c \in Conns |-> timerAfterConnect(c, reconnectTimer[c])]
        /\ timerHandles' = [c \in Conns |-> handlesAfterConnect(c, reconnectTimer[c])]
        /\ secondHeartbeatTimer' =
              IF secondHeartbeatTimer = None THEN Some(now + SECOND_MS)
              ELSE secondHeartbeatTimer
        /\ settled' = IF "topBuyers" \notin intervalTimers /\ settled = <<>>
                      THEN [i \in DOMAIN EXCHANGES |-> Pending] ELSE settled
        /\ intervalTimers' = intervalTimers \cup
              {"topBuyers", "markets", "fear", "news", "historySync"}
        /\ lastOp' = [op |-> "listen"]
        /\ UNCHANGED <<priceVars, clockVars, liqVars, topVars, miscVars,
                       reconnectAttempt, closes, isShuttingDown, subVars, clientVars, cycleVars, watchdog>>

\* The historySyncTimer callback, syncMinuteHistory(false), from the
\* resolution of its fetch on
HistorySync(result) ==
    LET sync == syncMinuteHistory(result, FALSE)
    IN  /\ "historySync" \in intervalTimers
        /\ candles' = sync.candles
        /\ latestClose' = sync.latestClose
        /\ Broadcast(sync.events)
        /\ lastOp' = [op |-> "sync", result |-> result.ok]
        /\ UNCHANGED <<priceVars, clockVars, liqVars, topVars, settled, miscVars,
                       connVars, intervalTimers, secondHeartbeatTimer,
                       isShuttingDown, phase, subVars, clientVars, cycleVars, watchdog>>

----------------------------------------------------------------------------
(* The browser client: the ten-second series of the live chart.  The      *)
(* render flags, the flash timer and the React state that applyPrice and  *)
(* onTrade also write are display state and are left out.                 *)

\* function bucketStart(ts, intervalMs)
bucketStart(ts, intervalMs) == (ts \div intervalMs) * intervalMs

\* function upsertCandleFromTrade(candles, trade, intervalMs, maxItems)
upsertCandleFromTrade(series, trade, intervalMs, maxItems) ==
    LET x == bucketStart(trade.ts, intervalMs)
        price == trade.price[1]
        next == IF series = <<>> \/ Last(series).x # x
                THEN Append(series, [x |-> x, o |-> price, h |-> price,
                                     l |-> price, c |-> price])
                ELSE [series EXCEPT ![Len(series)] =
                         [@ EXCEPT !.h = Max(@, price),
                                   !.l = Min(@, price),
                                   !.c = price]]
    IN  SliceLast(next, maxItems)

\* function upsertVolume(volumes, trade, intervalMs, maxItems)
upsertVolume(volumes, trade, intervalMs, maxItems) ==
    LET x == bucketStart(trade.ts, intervalMs)
        qty == trade.qty[1]
        next == IF volumes = <<>> \/ Last(volumes).x # x
                THEN Append(volumes,
                            [x |-> x,
                             buy |-> IF trade.side = "buy" THEN qty ELSE 0,
                             sell |-> IF trade.side = "sell" THEN qty ELSE 0])
                ELSE IF trade.side = "buy"
                THEN [volumes EXCEPT ![Len(volumes)].buy = @ + qty]
                ELSE [volumes EXCEPT ![Len(volumes)].sell = @ + qty]
    IN  SliceLast(next, maxItems)

\* The frame of a handler of the client: the server is untouched
serverVars == <<cycleVars, candleVars, priceVars, secondHeartbeatTimer, clockVars, liqVars,
                topVars, settled, miscVars, connVars, intervalTimers,
                isShuttingDown, phase, inbox, subVars>>

\* const onTrade = (trade) => ..., the handler of the "trade" event.  A trade
\* whose price or qty is not a number is ignored.
onTrade(trade) ==
    /\ Len(trade.price) = 1
    /\ Len(trade.qty) = 1
    /\ secondData.volumes # <<>> =>
           Last(secondData.volumes).buy + Last(secondData.volumes).sell
               < MaxClientQty
    /\ latestPrice' = Some(trade.price[1])
    /\ secondData' =
           [candles |-> upsertCandleFromTrade(secondData.candles, trade,
                            SECOND_CANDLE_INTERVAL_MS, MAX_SECOND_CANDLES),
            volumes |-> upsertVolume(secondData.volumes, trade,
                            SECOND_CANDLE_INTERVAL_MS, MAX_SECOND_CANDLES)]
    /\ emitted' = <<>>
    /\ lastOp' = [op |-> "onTrade", trade |-> trade,
                  before |-> secondData.candles]
    /\ UNCHANGED <<serverVars, watchdog>>

\* const pollPrice = async () => ..., from the answer of /api/price on: a
\* close that is not a finite number changes nothing.
pollPrice(payload) ==
    /\ Len(payload.close) = 1
    /\ LET syntheticTrade == [price |-> payload.close, qty |-> Some(0),
                              ts |-> payload.ts, side |-> "buy"]
       IN  /\ latestPrice' = Some(payload.close[1])
           /\ secondData' =
                  [secondData EXCEPT !.candles =
                      upsertCandleFromTrade(@, syntheticTrade,
                          POLL_CANDLE_INTERVAL_MS, MAX_SECOND_CANDLES)]
           /\ emitted' = <<>>
           /\ lastOp' = [op |-> "pollPrice", trade |-> syntheticTrade,
                         before |-> secondData.candles]
    /\ UNCHANGED <<serverVars, watchdog>>

\* function liquidationKey(row): exchangeId|ts|price|qty, with the fallbacks
\* of the template (row.exchangeId || row.exchange || "x", row.qty ||
\* row.notional || 0); the rows of the feed carry no exchange name here
liquidationKey(row) ==
    <<IF row.exchangeId # "" THEN row.exchangeId ELSE "x",
      row.ts,
      row.price,
      IF row.qty # 0 THEN row.qty ELSE row.notional>>

\* onLiquidations(payload): the rows replace the list; _key is
\* liquidationKey(row) and is not kept apart
onLiquidations(payload) == payload.rows

\* onLiquidation(payload): [keyed, ...prev.filter((item) => item._key !==
\* keyed._key)].slice(0, 30).  The 30 is the server's MAX_LIQUIDATIONS and
\* is scaled with it.
onLiquidation(prev, payload) ==
    LET NotSameKey(item) == liquidationKey(item) # liquidationKey(payload)
    IN  SliceFirst(<<payload>> \o SelectSeq(prev, NotSameKey), MAX_LIQUIDATIONS)

\* The client's liquidations state once it has handled the messages
\* delivered to it, in order
RECURSIVE clientLiquidations(_)
clientLiquidations(messages) ==
    IF messages = <<>> THEN <<>>
    ELSE LET prev == clientLiquidations(SubSeq(messages, 1, Len(messages) - 1))
             m == Last(messages)
         IN  IF m.event = "liquidations" THEN onLiquidations(m.data)
             ELSE IF m.event = "liquidation" THEN onLiquidation(prev, m.data)
             ELSE prev

----------------------------------------------------------------------------
(* The watchdog: a process of its own that spawns the server and the       *)
(* client preview and restarts them.  Its state is one record: the module  *)
(* variable shuttingDown; service, the objects server and client; and what *)
(* Node and the OS hold for it: children, the children spawned whose       *)
(* "exit" event has not fired (a child is its number in spawning order);   *)
(* timeouts, the restart setTimeout handles pending; checks, the           *)
(* checkHealth calls awaiting their fetch; exitTimer, the setTimeout of    *)
(* process.exit.                                                           *)

Services == {"server", "client"}

\* function createService(name, args)
createService == [proc |-> None, failStreak |-> 0, restartTimer |-> FALSE]

\* The state when the module's declarations have run, before the two
\* startService calls at its end
WatchdogLoaded ==
    [shuttingDown |-> FALSE,
     service |-> [s \in Services |-> createService],
     children |-> [s \in Services |-> {}],
     spawned |-> [s \in Services |-> 0],
     timeouts |-> [s \in Services |-> 0],
     checks |-> [s \in Services |-> 0],
     exitTimer |-> "none"]

\* function startService(service)
startService(w, s) ==
    IF w.shuttingDown \/ w.service[s].proc # None THEN w
    ELSE LET child == w.spawned[s] + 1
         IN  [w EXCEPT !.service[s].proc = Some(child),
                       !.children[s] = @ \cup {child},
                       !.spawned[s] = child]

\* scheduleRestart without the test of service.restartTimer
scheduleRestartAgain(w, s) ==
    IF w.shuttingDown THEN w
    ELSE [w EXCEPT !.service[s].restartTimer = TRUE, !.timeouts[s] = @ + 1]

\* function scheduleRestart(service)
scheduleRestart(w, s) ==
    IF w.shuttingDown \/ w.service[s].restartTimer THEN w
    ELSE [w EXCEPT !.service[s].restartTimer = TRUE, !.timeouts[s] = @ + 1]

\* function stopService(service): SIGTERM to the child, if there is one.
\* Nothing of the watchdog changes; the child's "exit" event comes later.
stopService(w, s) == w

\* function restartService(service, reason)
restartService(w, s) ==
    IF w.shuttingDown THEN w ELSE scheduleRestart(stopService(w, s), s)

\* checkHealth(service, url), as far as its await
checkHealthBegins(w, s) ==
    IF w.service[s].proc = None THEN scheduleRestart(w, s)
    ELSE [w EXCEPT !.checks[s] = @ + 1]

\* checkHealth(service, url), from the await on: ok is a response with
\* response.ok; otherwise the fetch rejected or the status was not 2xx
checkHealthSettles(w, s, ok) ==
    LET landed == [w EXCEPT !.checks[s] = @ - 1]
        streak == w.service[s].failStreak + 1
    IN  IF ok THEN [landed EXCEPT !.service[s].failStreak = 0]
        ELSE IF streak >= MAX_FAIL_STREAK
        THEN restartService([landed EXCEPT !.service[s].failStreak = 0], s)
        ELSE [landed EXCEPT !.service[s].failStreak = streak]

\* child.on("exit", ...)
onExit(w, s, child) ==
    LET gone == [w EXCEPT !.service[s].proc = None, !.children[s] = @ \ {child}]
    IN  IF gone.shuttingDown THEN gone ELSE scheduleRestart(gone, s)

\* The setTimeout callback of scheduleRestart
onRestartTimer(w, s) ==
    startService([w EXCEPT !.service[s].restartTimer = FALSE, !.timeouts[s] = @ - 1], s)

\* shutdown that leaves the restart timers alone
shutdownKeepsTimers(w) ==
    IF w.shuttingDown THEN w
    ELSE [w EXCEPT !.shuttingDown = TRUE, !.exitTimer = "pending"]

\* function shutdown(signal)
shutdown(w) ==
    IF w.shuttingDown THEN w
    ELSE [w EXCEPT !.shuttingDown = TRUE,
                   !.service = [s \in Services |-> [@[s] EXCEPT !.restartTimer = FALSE]],
                   !.timeouts = [s \in Services |->
                                    IF w.service[s].restartTimer THEN @[s] - 1 ELSE @[s]],
                   !.exitTimer = "pending"]

\* The watchdog process has not exited
WatchdogRuns == watchdog.exitTimer # "exited"

\* A handler of the watchdog has run and left it as w
WatchdogStep(op, w) ==
    /\ \A s \in Services : w.spawned[s] <= MaxSpawns /\ w.checks[s] <= MaxChecks
    /\ watchdog' = w
    /\ lastOp' = op
    /\ UNCHANGED <<serverVars, clientVars, emitted>>

\* A child's "exit" event, whatever made it exit
ChildExits(s, child) ==
    /\ WatchdogRuns
    /\ child \in watchdog.children[s]
    /\ WatchdogStep([op |-> "exit", service |-> s], onExit(watchdog, s, child))

\* A restart timer fires
RestartTimerFires(s) ==
    /\ WatchdogRuns
    /\ watchdog.timeouts[s] > 0
    /\ WatchdogStep([op |-> "restartTimer", service |-> s], onRestartTimer(watchdog, s))

\* The setInterval callback: checkHealth(server, ...), checkHealth(client, ...)
HealthTimerFires ==
    /\ WatchdogRuns
    /\ WatchdogStep([op |-> "checkHealth"],
                    checkHealthBegins(checkHealthBegins(watchdog, "server"), "client"))

\* The fetch of a health check settles
HealthCheckSettles(s, ok) ==
    /\ WatchdogRuns
    /\ watchdog.checks[s] > 0
    /\ WatchdogStep([op |-> "healthSettles", service |-> s, ok |-> ok],
                    checkHealthSettles(watchdog, s, ok))

\* process.on("SIGINT" / "SIGTERM") of the watchdog
WatchdogShutdown ==
    /\ WatchdogRuns
    /\ WatchdogStep([op |-> "shutdown", already |-> watchdog.shuttingDown],
                    shutdown(watchdog))

\* setTimeout(() => process.exit(0), 500) fires: the process is gone, with
\* its timers and its pending fetches
ProcessExit ==
    /\ watchdog.exitTimer = "pending"
    /\ WatchdogStep([op |-> "processExit"], [watchdog EXCEPT !.exitTimer = "exited"])

----------------------------------------------------------------------------
(* The inputs drawn *)

\* Start times on the wire: a non-numeric one, and one-minute buckets.
RawStartTimes == {<<>>, <<60000>>, <<120000>>, <<180000>>, <<240000>>}
RawCloses == {<<100>>, <<101>>}

WsKlines ==
    {[t |-> t, o |-> c, h |-> c, l |-> c, c |-> c, v |-> <<1>>, x |-> FALSE] :
        t \in RawStartTimes, c \in RawCloses}

\* One kline of the stream
IsolationKline ==
    [t |-> <<60000>>, o |-> <<100>>, h |-> <<100>>, l |-> <<100>>, c |-> <<100>>,
     v |-> <<1>>, x |-> FALSE]

\* REST entries [openTime, open, high, low, close, volume]; the first two
\* normalise to the same startTime.
RestEntries ==
    {<< <<>>, <<100>>, <<100>>, <<100>>, <<100>>, <<1>> >>,
     << <<0>>, <<101>>, <<101>>, <<101>>, <<101>>, <<1>> >>,
     << <<60000>>, <<100>>, <<100>>, <<100>>, <<100>>, <<1>> >>,
     << <<120000>>, <<101>>, <<101>>, <<101>>, <<101>>, <<2>> >>}

\* Longest REST payload drawn: one entry more than the series holds.
MaxPayload == MAX_CANDLES + 1

SyncResults == {Failed} \cup {Fetched(p) : p \in SeqUpTo(RestEntries, MaxPayload)}

\* Trades: a price that parses and one that does not; an exchange timestamp
\* in the second after the first, in the one after that, or none.  Two more:
\* a price of zero, and a trade without a quantity.
TradeData ==
    {[p |-> p, q |-> <<1>>, T |-> T, m |-> FALSE] :
        p \in {<<>>, <<100>>}, T \in {<<>>, <<1400>>, <<2400>>}}
    \cup {[p |-> <<0>>, q |-> <<1>>, T |-> <<1400>>, m |-> FALSE],
          [p |-> <<100>>, q |-> <<>>, T |-> <<1400>>, m |-> FALSE]}

\* Bybit rows: price and size
BybitEntries == {[p |-> <<50000>>, v |-> <<2>>]}

\* OKX rows: without a notional, and with sz in contracts and notionalUsd
OkxEntries ==
    {[bkPx |-> <<50000>>, sz |-> <<2>>],
     [bkPx |-> <<50000>>, sz |-> <<300>>, notionalUsd |-> <<150000>>]}

\* Liquidations: one cent below the floor, at the floor, above it.
LiqItems(c) ==
    IF c = "binance"
    THEN {LiqItem(c, 33333, 3), LiqItem(c, 50000, 2), LiqItem(c, 50000, 3)}
    ELSE IF c = "bybit"
    THEN {bybitLiquidation(entry) : entry \in BybitEntries}
    ELSE {okxLiquidation(entry) : entry \in OkxEntries}

\* The event times the venues stamp on their rows
EventTimes == {1000, 2000}

\* Liquidations above the floor that carry the venue's event time: order.T,
\* entry.T, entry.ts
TimedLiqItems(c) ==
    IF c = "binance"
    THEN {binanceLiquidation([q |-> <<3>>, p |-> <<50000>>, ap |-> <<>>, T |-> <<t>>]) :
             t \in EventTimes}
    ELSE IF c = "bybit"
    THEN {bybitLiquidation([p |-> <<50000>>, v |-> <<3>>, T |-> <<t>>]) : t \in EventTimes}
    ELSE {okxLiquidation([bkPx |-> <<50000>>, sz |-> <<3>>, ts |-> <<t>>]) : t \in EventTimes}

\* Bid books [price, size in hundredths of a BTC]
BookA == << << <<100>>, <<50>> >>, << <<99>>, <<20>> >> >>
BookB == << << <<101>>, <<30>> >>, << <<100>>, <<5>> >>, << <<>>, <<40>> >> >>

Responses(i) ==
    CASE i = 1 -> {[kind |-> "http", bids |-> None],
                   [kind |-> "json", bids |-> Some(BookA)],
                   [kind |-> "json", bids |-> Some(BookB)]}
      [] i = 2 -> {[kind |-> "network", bids |-> None],
                   [kind |-> "json", bids |-> Some(BookA)],
                   [kind |-> "json", bids |-> None]}
      [] i = 3 -> {[kind |-> "notjson", bids |-> None],
                   [kind |-> "json", bids |-> Some(BookB)],
                   [kind |-> "json", bids |-> Some(BookA)]}
      [] OTHER -> {[kind |-> "http", bids |-> None],
                   [kind |-> "json", bids |-> Some(BookA)],
                   [kind |-> "json", bids |-> Some(BookB)]}

\* Trades as the client receives them: in three ten-second buckets, in any
\* order of arrival, and one without a numeric price.
ClientTrades ==
    [price : {<<100>>, <<101>>}, qty : {<<1>>}, ts : {5000, 15000, 25000},
     side : {"buy", "sell"}]
        \cup {[price |-> None, qty |-> <<1>>, ts |-> 5000, side |-> "buy"]}

\* Answers of /api/price
PricePayloads ==
    {[close |-> <<101>>, ts |-> 15500], [close |-> None, ts |-> 15500]}

\* Frames of the four connections: one that is no JSON, frames without the
\* envelope the handler expects but with a body it could read, and frames
\* of the streams subscribed to.
NotJson == [json |-> FALSE, payload |-> <<>>]
Json(payload) == [json |-> TRUE, payload |-> payload]

MessageTrades ==
    {[p |-> d[1], q |-> d[2], T |-> <<1400>>, m |-> FALSE] :
        d \in {<< <<>>, <<1>> >>, << <<100>>, <<1>> >>}}

MessageKlines ==
    {[t |-> k[1], o |-> k[2], h |-> k[2], l |-> k[2], c |-> k[2], v |-> <<1>>,
      x |-> FALSE] :
        k \in {<< <<60000>>, <<100>> >>, << <<120000>>, <<101>> >>}}

MessageOrder == [q |-> <<2>>, ap |-> <<>>, p |-> <<50000>>]
MessageRow == [p |-> <<50000>>, v |-> <<2>>, bkPx |-> <<50000>>, sz |-> <<2>>]

RawMessages(c) ==
    {NotJson} \cup
    CASE c = "main" ->
            {Json([stream |-> <<>>, data |-> <<[k |-> <<>>]>>]),
             Json([stream |-> <<"@trade">>, data |-> <<>>]),
                  Json([stream |-> <<"@depth">>, data |-> <<[k |-> <<>>]>>]),
                  Json([stream |-> <<"@kline_1m">>, data |-> <<[k |-> <<>>]>>])}
            \cup {Json([stream |-> <<"@trade">>, data |-> <<data>>]) :
                     data \in MessageTrades}
            \cup {Json([stream |-> <<"@kline_1m">>, data |-> <<[k |-> <<kline>>]>>]) :
                     kline \in MessageKlines}
      [] c = "binance" ->
            {Json([o |-> <<>>]), Json([o |-> <<MessageOrder>>])}
      [] c = "bybit" ->
            {Json([topic |-> topic, data |-> <<MessageRow>>]) :
                topic \in {<<>>, <<"publicTrade.">>, <<"liquidation.">>}}
            \cup {Json([topic |-> <<"liquidation.">>, data |-> <<>>])}
      [] OTHER ->
            {Json([event |-> <<"subscribe">>, channel |-> <<"liquidation-orders">>,
                   data |-> <<MessageRow>>]),
             Json([event |-> <<>>, channel |-> <<"tickers">>, data |-> <<MessageRow>>]),
             Json([event |-> <<>>, channel |-> <<>>, data |-> <<MessageRow>>]),
             Json([event |-> <<>>, channel |-> <<"liquidation-orders">>,
                   data |-> <<MessageRow>>])}

\* Bids [price, size in hundredths of a BTC]: two of one notional, a larger
\* one, one under the size floor, one without a price, one without a size.
RawBids ==
    {<< <<100>>, <<10>> >>, << <<50>>, <<20>> >>, << <<101>>, <<20>> >>,
     << <<100>>, <<9>> >>, << <<>>, <<40>> >>, << <<100>>, <<>> >>}

\* Longest bid list drawn: two bids more than a venue's rows hold.
MaxBids == TOP_BUYERS_LIMIT + 2

\* What the four tasks of a refresh settle with: every venue answers with
\* one book, every venue with the other, or every fetch fails
RefreshResults ==
    {[i \in DOMAIN EXCHANGES |-> Settled(EXCHANGES[i], response)] :
        response \in {[kind |-> "json", bids |-> Some(BookA)],
                      [kind |-> "json", bids |-> Some(BookB)],
                      [kind |-> "http", bids |-> None]}}

\* Candidate fields of a row: absent, zero, negative, and two positive numbers
Candidates == {<<>>, <<0>>, <<-5>>, <<5>>, <<7>>}

\* Longest list of candidates drawn
MaxCandidates == 3

----------------------------------------------------------------------------
(* Properties *)

StrictlyAscending(cs) ==
    \A i, j \in DOMAIN cs : i < j => cs[i].startTime < cs[j].startTime

Reverse(s) == [i \in 1..Len(s) |-> s[Len(s) + 1 - i]]

\* C1: starting from an empty series, after any sequence of upsertCandle
\* calls the series is strictly ascending by startTime (so no two candles
\* share a startTime) and holds at most MAX_CANDLES candles.
C1_UpsertKeepsSeriesOrdered ==
    /\ StrictlyAscending(candles)
    /\ Len(candles) <= MAX_CANDLES

\* C1's case: a candle older than the newest one was upserted into a full
\* series and is retained, in order.
C1_Witness ==
    /\ lastOp.op = "kline"
    /\ Len(candles) = MAX_CANDLES
    /\ lastOp.candle.startTime < Last(candles).startTime
    /\ \E i \in DOMAIN candles : candles[i] = lastOp.candle

\* C2: after a resync with any authoritative series and any upserts the
\* series has no out-of-order pair, no two candles with the same startTime,
\* and at most MAX_CANDLES candles.
C2_ResyncKeepsSeriesOrdered ==
    /\ \A i, j \in DOMAIN candles :
          i < j => /\ candles[i].startTime <= candles[j].startTime
                   /\ candles[i].startTime # candles[j].startTime
    /\ Len(candles) <= MAX_CANDLES

\* C3: a liquidation passed to pushLiquidation is retained and broadcast,
\* once, if and only if its notional is at least
\* MIN_LIQUIDATION_NOTIONAL_USD; below the floor nothing changes and nothing
\* is broadcast.
C3_FloorDecidesRetainAndBroadcast ==
    lastOp.op = "pushLiquidation" =>
        IF lastOp.item.notional >= MIN_LIQUIDATION_NOTIONAL_USD
        THEN /\ emitted = <<Ev("liquidation", lastOp.item)>>
             /\ liquidations # <<>>
             /\ liquidations[1] = lastOp.item
             /\ Len(liquidations) = Min(MAX_LIQUIDATIONS, Len(lastOp.before) + 1)
        ELSE /\ emitted = <<>>
             /\ liquidations = lastOp.before

\* C3's case: an event exactly at the floor was retained and broadcast.
C3_Witness ==
    /\ lastOp.op = "pushLiquidation"
    /\ lastOp.item.notional = MIN_LIQUIDATION_NOTIONAL_USD
    /\ emitted = <<Ev("liquidation", lastOp.item)>>
    /\ liquidations[1] = lastOp.item

\* C4: the list is the accepted events in reverse order of acceptance, cut to
\* the MAX_LIQUIDATIONS most recent: index 0 is the latest, the earliest is
\* the one dropped on overflow.
C4_MostRecentFirstBounded ==
    /\ Len(liquidations) <= MAX_LIQUIDATIONS
    /\ liquidations = SubSeq(Reverse(accepted), 1, Min(MAX_LIQUIDATIONS, Len(accepted)))

\* C4's case: more events were accepted than the list holds, and the two
\* newest differ.
C4_Witness ==
    /\ Len(accepted) > MAX_LIQUIDATIONS
    /\ liquidations[1] = accepted[Len(accepted)]
    /\ liquidations[1] # liquidations[2]
    /\ accepted[1] # accepted[Len(accepted) - MAX_LIQUIDATIONS + 1]

\* The rows of the tasks that were fulfilled, in venue order
FulfilledRows(results) ==
    Concat([i \in DOMAIN results |->
               IF results[i].status = "fulfilled" THEN results[i].value ELSE <<>>])

\* C5: whatever venues failed, a cycle publishes the TOP_BUYERS_LIMIT
\* highest-notional rows of the venues that succeeded in it, in
\* non-increasing notional order, with one status entry per configured
\* venue: ok where the fetch succeeded, error where it failed.
C5_PublishesTopRowsOfSucceededVenues ==
    lastOp.op = "publishTopBuyers" =>
        LET union == FulfilledRows(lastOp.results)
            left == BagOf(union) (-) BagOf(topBuyers)
        IN  /\ Len(topBuyers) = Min(TOP_BUYERS_LIMIT, Len(union))
            /\ \A i, j \in DOMAIN topBuyers :
                  i < j => topBuyers[i].notional >= topBuyers[j].notional
            /\ BagOf(topBuyers) \sqsubseteq BagOf(union)
            /\ \A r \in BagToSet(left) : \A i \in DOMAIN topBuyers :
                  r.notional <= topBuyers[i].notional
            /\ DOMAIN exchangeStatus = DOMAIN EXCHANGES
            /\ \A i \in DOMAIN EXCHANGES :
                  /\ exchangeStatus[i].exchange = EXCHANGES[i]
                  /\ exchangeStatus[i].status =
                        IF lastOp.results[i].status = "fulfilled" THEN "ok" ELSE "error"
            /\ Len(emitted) = 1
            /\ emitted[1].event = "topBuyers"
            /\ emitted[1].data.rows = topBuyers
            /\ emitted[1].data.exchanges = exchangeStatus

\* C5's case: one venue failed, the others returned more rows than the
\* limit, and the rows published come from two venues.
C5_Witness ==
    /\ lastOp.op = "publishTopBuyers"
    /\ lastOp.results[2].status = "rejected"
    /\ lastOp.results[1].status = "fulfilled"
    /\ lastOp.results[3].status = "fulfilled"
    /\ Len(FulfilledRows(lastOp.results)) > TOP_BUYERS_LIMIT
    /\ Len(topBuyers) = TOP_BUYERS_LIMIT
    /\ \E i, j \in DOMAIN topBuyers : topBuyers[i].exchangeId # topBuyers[j].exchangeId

\* C6: the k-th consecutive close without an open in between schedules the
\* reconnect after min(RECONNECT_MAX_DELAY_MS, RECONNECT_BASE_DELAY_MS * 2^(k-1)):
\* base, 2*base, 4*base, min(max, 8*base) for the first four.
C6_BackoffDoubles ==
    /\ \A c \in Conns :
          reconnectTimer[c] # None =>
             LET k == closes[c].n
                 delay == reconnectTimer[c][1]
             IN  /\ k >= 1
                 /\ RECONNECT_BASE_DELAY_MS * Pow2(k - 1) <= RECONNECT_MAX_DELAY_MS
                       => delay = RECONNECT_BASE_DELAY_MS * Pow2(k - 1)
                 /\ RECONNECT_BASE_DELAY_MS * Pow2(k - 1) > RECONNECT_MAX_DELAY_MS
                       => delay = RECONNECT_MAX_DELAY_MS
                 /\ k <= 4 =>
                       delay = <<RECONNECT_BASE_DELAY_MS,
                                 2 * RECONNECT_BASE_DELAY_MS,
                                 4 * RECONNECT_BASE_DELAY_MS,
                                 Min(RECONNECT_MAX_DELAY_MS,
                                     8 * RECONNECT_BASE_DELAY_MS)>>[k]
    /\ (lastOp.op = "close" /\ ~isShuttingDown) => reconnectTimer[lastOp.conn] # None

\* C6's case: a fourth consecutive close has scheduled the reconnect.
C6_Witness ==
    \E c \in Conns :
        /\ closes[c].n = 4
        /\ lastOp = [op |-> "close", conn |-> c]
        /\ reconnectTimer[c] = Some(Min(RECONNECT_MAX_DELAY_MS, 8 * RECONNECT_BASE_DELAY_MS))

\* C7: an open sets the connection's attempt counter to 0, nothing else
\* lowers it, and the first close after an open schedules the reconnect with
\* the base delay.
C7_OpenResetsAttempts ==
    [][\A c \in Conns :
          /\ (socketVar[c] = "CONNECTING" /\ socketVar'[c] = "OPEN")
                => reconnectAttempt'[c] = 0
          /\ reconnectAttempt'[c] < reconnectAttempt[c]
                => (socketVar[c] = "CONNECTING" /\ socketVar'[c] = "OPEN")
          /\ (socketVar[c] \in {"OPEN", "CLOSING"} /\ closes[c].n = 0
                /\ closes'[c].n = 1 /\ ~isShuttingDown)
                => reconnectTimer'[c] = Some(RECONNECT_BASE_DELAY_MS)]_vars

\* C7's case: a connection failed at least twice, opened, and its first
\* close since is scheduled with the base delay.
C7_Witness ==
    \E c \in Conns :
        /\ lastOp = [op |-> "close", conn |-> c]
        /\ closes[c].n = 1
        /\ closes[c].prev >= 2
        /\ reconnectTimer[c] = Some(RECONNECT_BASE_DELAY_MS)

\* The bootstrap messages of the aggregates a, stated from the claim: history
\* and price when known, then top buyers, liquidations, markets, the
\* sentiment reading when known, and news.
BootstrapOf(a) ==
    (IF a.candles # <<>> THEN <<[event |-> "history", data |-> a.candles]>> ELSE <<>>)
    \o (IF a.latestSecondPrice # None
        THEN <<[event |-> "price",
                data |-> [close |-> a.latestSecondPrice[1], ts |-> a.latestSecondTs,
                          source |-> "second"]]>>
        ELSE IF a.latestClose # None
        THEN <<[event |-> "price",
                data |-> [close |-> a.latestClose[1],
                          startTime |-> IF a.candles = <<>> THEN None
                                        ELSE Some(Last(a.candles).startTime),
                          source |-> "minute"]]>>
        ELSE <<>>)
    \o <<[event |-> "topBuyers",
          data |-> [updatedAt |-> a.topBuyersUpdatedAt, rows |-> a.topBuyers,
                    exchanges |-> a.exchangeStatus]],
         [event |-> "liquidations", data |-> [updatedAt |-> a.now, rows |-> a.liquidations]],
         [event |-> "markets", data |-> [updatedAt |-> a.now, rows |-> a.markets]]>>
    \o (IF a.fearGreed # None
        THEN <<[event |-> "fearGreed", data |-> a.fearGreed[1]]>> ELSE <<>>)
    \o <<[event |-> "news",
          data |-> [updatedAt |-> a.now, rows |-> SliceFirst(a.newsItems, NEWS_LIMIT)]]>>

\* C8: what a subscriber has received starts with all the bootstrap messages
\* of one single state of the aggregates, the one its handler started in,
\* and every message after them is a broadcast.
C8_BootstrapIsOneSnapshotFirst ==
    \A s \in Subs :
        subState[s] # "idle" =>
            LET boot == BootstrapOf(snap[s][1])
            IN  /\ Len(inbox[s]) >= Len(boot)
                /\ \A i \in DOMAIN boot :
                      /\ inbox[s][i].via = "socket"
                      /\ inbox[s][i].event = boot[i].event
                      /\ inbox[s][i].data = boot[i].data
                /\ \A i \in (Len(boot) + 1)..Len(inbox[s]) : inbox[s][i].via = "io"

\* C8's case: a subscriber was bootstrapped with a candle and two
\* liquidations known, a second one after a later event, and the first has
\* received that event after its bootstrap.
C8_Witness ==
    /\ subState["s1"] = "streaming"
    /\ subState["s2"] = "streaming"
    /\ snap["s1"][1].candles # <<>>
    /\ Len(snap["s1"][1].liquidations) = 2
    /\ snap["s2"][1] # snap["s1"][1]
    /\ Len(inbox["s1"]) > Len(BootstrapOf(snap["s1"][1]))
    /\ Last(inbox["s1"]).via = "io"

\* C9 as stated: three heartbeat ticks without a trade broadcast exactly
\* three second prices, each in another second bucket, whatever timestamp
\* the last trade carried.
C9_ThreeQuietTicksThreeEvents ==
    secondHist.ticks = 3 =>
        /\ secondHist.tickEmits = 3
        /\ Cardinality(secondHist.tickBuckets) = 3

\* C9 as amended: of the heartbeat ticks since the last trade, one second
\* apart, every tick broadcasts one second price, each in another second
\* bucket, except the first tick when it falls in the second bucket of the
\* last trade's timestamp: three quiet ticks broadcast three events, or two
\* in that case.
C9_QuietTicksEmitButSameBucketFirst ==
    secondHist.ticks >= 1 =>
        LET same == SecondBucket(secondHist.firstTickAt[1])
                       = SecondBucket(secondHist.lastTradeTs[1])
        IN  /\ secondHist.tickEmits = secondHist.ticks - (IF same THEN 1 ELSE 0)
            /\ Cardinality(secondHist.tickBuckets) = secondHist.tickEmits

\* C9's case: three quiet ticks, the first in the last trade's bucket.
C9_Witness ==
    /\ secondHist.ticks = 3
    /\ secondHist.tickEmits = 2
    /\ SecondBucket(secondHist.firstTickAt[1]) = SecondBucket(secondHist.lastTradeTs[1])

\* C10: no two second prices are broadcast whose ts fall in the same second
\* bucket.
C10_OneSecondPricePerBucket == ~secondHist.dup

\* The sockets of connection c that exist: the one held and the unheld ones
Sockets(c) == (IF socketVar[c] \in Live THEN 1 ELSE 0) + orphans[c]

\* The sockets of connection c that are open or connecting
LiveSockets(c) ==
    (IF socketVar[c] \in {"OPEN", "CONNECTING"} THEN 1 ELSE 0) + liveOrphans[c]

\* C11: whatever the trade, one in a bucket older than the last candle's
\* included, the client's upsert either appends exactly one candle with
\* o = h = l = c = price when the series has no candle of the trade's bucket,
\* or only updates h, l and c of the candle of that bucket; the series holds
\* at most one candle for a bucket and stays in ascending order of bucket.
C11_OneCandlePerBucketAscending ==
    /\ StrictlyAscending([i \in DOMAIN secondData.candles |->
                             [startTime |-> secondData.candles[i].x]])
    /\ lastOp.op = "onTrade" =>
           LET before == lastOp.before
               price == lastOp.trade.price[1]
               x == bucketStart(lastOp.trade.ts, SECOND_CANDLE_INTERVAL_MS)
               held == {i \in DOMAIN before : before[i].x = x}
               fresh == [x |-> x, o |-> price, h |-> price, l |-> price,
                         c |-> price]
           IN  IF held = {}
               THEN secondData.candles =
                        SliceLast(Append(before, fresh), MAX_SECOND_CANDLES)
               ELSE /\ Len(secondData.candles) = Len(before)
                    /\ \A i \in DOMAIN before :
                           secondData.candles[i] =
                               IF i \in held
                               THEN [before[i] EXCEPT !.h = Max(@, price),
                                                      !.l = Min(@, price),
                                                      !.c = price]
                               ELSE before[i]

\* C12: once isShuttingDown is set, no step schedules a reconnect timer and
\* no step creates an upstream socket, whatever close handler or connect
\* call runs afterwards.
C12_NothingStartsAfterShutdown ==
    [][isShuttingDown =>
          \A c \in Conns :
             /\ reconnectTimer'[c] = None
             /\ timerHandles'[c] = 0
             /\ Sockets(c)' <= Sockets(c)
             /\ socketVar'[c] = "CONNECTING" => socketVar[c] = "CONNECTING"]_vars

\* C12's case: after shutdown the main socket's close handler has run, and
\* the startup's connect calls have run, and nothing is scheduled or connecting.
C12_Witness ==
    /\ isShuttingDown
    /\ phase = "running"
    /\ lastOp = [op |-> "close", conn |-> "main"]
    /\ reconnectTimer["main"] = None
    /\ \A c \in Conns : socketVar[c] = "null"

\* C13: after shutdown has run no timer of the server is pending: no
\* reconnect timer, no periodic timer and no heartbeat, however the signal
\* interleaves with the startup.
C13_NoTimerAfterShutdown ==
    isShuttingDown =>
        /\ \A c \in Conns : reconnectTimer[c] = None /\ timerHandles[c] = 0
        /\ intervalTimers = {}
        /\ secondHeartbeatTimer = None

\* C14: each connection has at most one reconnect timer pending, the one
\* its variable holds, and a step that creates a socket leaves none pending.
C14_OnePendingTimer ==
    /\ [](\A c \in Conns :
             /\ timerHandles[c] <= 1
             /\ timerHandles[c] = 1 <=> reconnectTimer[c] # None)
    /\ [][\A c \in Conns :
             Sockets(c)' > Sockets(c) => timerHandles'[c] = 0]_vars

\* C14's case: a connection that failed again after a reconnect has its one
\* timer pending.
C14_Witness ==
    \E c \in Conns :
        /\ closes[c].n >= 2
        /\ lastOp = [op |-> "close", conn |-> c]
        /\ timerHandles[c] = 1
        /\ reconnectTimer[c] # None

\* C15: for a connection whose socket is OPEN or CONNECTING a connect call
\* creates no socket and changes nothing, and at most one socket of a
\* connection is open or connecting.
C15_ConnectIsIdempotent ==
    \A c \in Conns :
        /\ socketVar[c] \in {"OPEN", "CONNECTING"} =>
              /\ socketAfterConnect(c) = socketVar[c]
              /\ orphansAfterConnect(c) = orphans[c]
              /\ liveOrphansAfterConnect(c) = liveOrphans[c]
              /\ timerAfterConnect(c, reconnectTimer[c]) = reconnectTimer[c]
              /\ handlesAfterConnect(c, reconnectTimer[c]) = timerHandles[c]
        /\ LiveSockets(c) <= 1

\* C15's case: a connection is open again after two failures and a
\* reconnect, with one socket.
C15_Witness ==
    \E c \in Conns :
        /\ socketVar[c] = "OPEN"
        /\ closes[c].prev >= 2
        /\ LiveSockets(c) = 1
        /\ Sockets(c) = 1

\* C16: a close or an error of one connection leaves the socket, the
\* attempt counter and the reconnect timer of every other connection as they
\* were, and a message of another connection whose socket is open is
\* processed whatever the state of the first.
C16_FailureIsIsolated ==
    /\ [][\A c \in Conns :
             (lastOp'.op \in {"close", "closing"} /\ lastOp'.conn = c) =>
                \A d \in Conns \ {c} :
                   /\ socketVar'[d] = socketVar[d]
                   /\ reconnectAttempt'[d] = reconnectAttempt[d]
                   /\ reconnectTimer'[d] = reconnectTimer[d]
                   /\ timerHandles'[d] = timerHandles[d]]_vars
    /\ [](socketVar["main"] = "OPEN" =>
             ENABLED WsKline(IsolationKline))

\* C16's case: the bybit connection is down and backing off after two
\* failures while a kline of the main connection, open and never failed, has
\* just been processed.
C16_Witness ==
    /\ lastOp.op = "kline"
    /\ candles # <<>>
    /\ socketVar["main"] = "OPEN"
    /\ reconnectAttempt["main"] = 0
    /\ socketVar["bybit"] = "null"
    /\ closes["bybit"].n >= 2
    /\ reconnectTimer["bybit"] # None

\* C17: in a cycle, a venue whose fetch fails or never completes does not
\* block the others: once every other venue has responded the cycle
\* publishes, so no cycle is left in flight with nothing more to wait for but
\* a fetch that never completes.
C17_SilentVenueDoesNotBlock ==
    (settled # <<>> /\ \E i \in DOMAIN settled : settled[i].status = "fulfilled")
        => \E i \in DOMAIN settled : settled[i].status = "pending"

\* C18: the rows and the status change only together, in the one step that
\* publishes a cycle, and to that cycle's rows and status, which the
\* broadcast of the step carries; so in every state every row published
\* belongs to a venue whose published status is ok.
C18_RowsAndStatusOfOneCycle ==
    /\ [](\A k \in DOMAIN topBuyers :
             \E i \in DOMAIN exchangeStatus :
                /\ exchangeStatus[i].exchange = topBuyers[k].exchangeId
                /\ exchangeStatus[i].status = "ok")
    /\ [][(topBuyers' # topBuyers \/ exchangeStatus' # exchangeStatus
             \/ topBuyersUpdatedAt' # topBuyersUpdatedAt) =>
             /\ lastOp'.op = "publishTopBuyers"
             /\ \A i \in DOMAIN lastOp'.results :
                   lastOp'.results[i].status \in {"fulfilled", "rejected"}
             /\ Len(topBuyers') =
                   Min(TOP_BUYERS_LIMIT, Len(FulfilledRows(lastOp'.results)))
             /\ BagOf(topBuyers') \sqsubseteq BagOf(FulfilledRows(lastOp'.results))
             /\ \A i \in DOMAIN EXCHANGES :
                   exchangeStatus'[i].status =
                      IF lastOp'.results[i].status = "fulfilled" THEN "ok" ELSE "error"
             /\ Len(emitted') = 1
             /\ emitted'[1].event = "topBuyers"
             /\ emitted'[1].data.rows = topBuyers'
             /\ emitted'[1].data.exchanges = exchangeStatus']_vars

\* C18's case: a second cycle is in flight, a venue that failed in the
\* published cycle has already delivered rows in it, and the state still
\* shows the first cycle's rows and status.
C18_Witness ==
    /\ settled # <<>>
    /\ topBuyers # <<>>
    /\ \E i \in DOMAIN settled :
          /\ settled[i].status = "fulfilled"
          /\ settled[i].value # <<>>
          /\ exchangeStatus # <<>>
          /\ exchangeStatus[i].status = "error"

\* C19: in a published cycle, a venue whose fetch failed by a network error,
\* a non-2xx response, an unparsable body or a body without the bids array
\* contributes no row and is reported with status error and a message.
C19_FailedVenueIsReportedError ==
    lastOp.op = "publishTopBuyers" =>
        \A i \in DOMAIN lastOp.results :
            LET response == lastOp.results[i].response[1]
            IN  (response.kind \in {"network", "http", "notjson"}
                   \/ (response.kind = "json" /\ response.bids = None)) =>
                   /\ \A k \in DOMAIN topBuyers : topBuyers[k].exchangeId # EXCHANGES[i]
                   /\ exchangeStatus[i].status = "error"
                   /\ exchangeStatus[i].error # ""

\* C20: every liquidation retained in the list or broadcast, from any of
\* the three venues, has notional = price * qty and notional at least
\* MIN_LIQUIDATION_NOTIONAL_USD.
C20_NotionalIsPriceTimesQty ==
    /\ \A i \in DOMAIN liquidations :
          /\ liquidations[i].notional = liquidations[i].price * liquidations[i].qty
          /\ liquidations[i].notional >= MIN_LIQUIDATION_NOTIONAL_USD
    /\ \A i \in DOMAIN emitted :
          emitted[i].event = "liquidation" =>
             /\ emitted[i].data.notional = emitted[i].data.price * emitted[i].data.qty
             /\ emitted[i].data.notional >= MIN_LIQUIDATION_NOTIONAL_USD

\* C21: whenever the candle series is non-empty, latestClose is the close of
\* its last candle, after any sequence of upserts and resyncs, an upsert of a
\* candle that is not of the newest bucket included.
C21_LatestCloseIsLastClose ==
    candles # <<>> => latestClose = Some(Last(candles).close)

\* The envelope a connection's frames are expected in: stream and data on
\* the main socket, the order o of Binance, a liquidation topic of Bybit,
\* the liquidation-orders channel of OKX
ExpectedEnvelope(c, payload) ==
    CASE c = "main"    -> payload.stream # <<>> /\ payload.data # <<>>
      [] c = "binance" -> payload.o # <<>>
      [] c = "bybit"   -> payload.topic = <<"liquidation.">>
      [] OTHER         -> payload.event = <<>>
                          /\ payload.channel = <<"liquidation-orders">>

Malformed(c, raw) == ~raw.json \/ ~ExpectedEnvelope(c, raw.payload)

\* C22: a frame on any upstream connection that is no valid JSON or lacks
\* the expected envelope is dropped: the socket stays open, no reconnect is
\* scheduled, the candle series, the latest prices and the liquidation list
\* do not change and nothing is broadcast.
C22_MalformedIsDropped ==
    [][\/ /\ UNCHANGED <<socketVar, reconnectTimer, timerHandles,
                         reconnectAttempt>>
          /\ UNCHANGED <<candles, latestClose, latestSecondPrice,
                         latestSecondTs, liquidations>>
          /\ emitted' = <<>>
          /\ inbox' = inbox
       \/ ~(\E c \in Conns : \E raw \in RawMessages(c) :
               Malformed(c, raw) /\ Message(c, raw))]_vars

C22_Witness ==
    /\ lastOp.op = "message"
    /\ lastOp.conn = "bybit"
    /\ lastOp.json
    /\ candles # <<>>
    /\ liquidations # <<>>
    /\ latestSecondPrice # None
    /\ \A c \in Conns : socketVar[c] = "OPEN"

\* The last candle's startTime, close or volume differs between two series
LastCandleDiffers(before, after) ==
    \/ Last(before).startTime # Last(after).startTime
    \/ Last(before).close # Last(after).close
    \/ Last(before).volume # Last(after).volume

EventNames(events) == [i \in DOMAIN events |-> events[i].event]

\* C23 as stated: a periodic resync broadcasts history, kline and price if
\* and only if the series was empty before it or the last candle's
\* startTime, close or volume differs between the series before and after.
C23_BroadcastIffEmptyOrChanged ==
    [][lastOp'.op = "sync" =>
          (EventNames(emitted') = <<"history", "kline", "price">>
             <=> (candles = <<>> \/ LastCandleDiffers(candles, candles')))]_vars

\* C23: a periodic resync that leaves a non-empty series broadcasts history
\* (the series), kline (its last candle) and price (that candle's close) if
\* and only if the series was empty before it or the last candle's
\* startTime, close or volume differs between the series before and after;
\* otherwise, and when the series is empty before and after, it broadcasts
\* nothing.
C23_BroadcastIffChanged ==
    [][lastOp'.op = "sync" =>
          IF candles' # <<>>
             /\ (candles = <<>> \/ LastCandleDiffers(candles, candles'))
          THEN emitted' =
                  <<Ev("history", candles'),
                    Ev("kline", Last(candles')),
                    Ev("price", [close |-> Last(candles').close,
                                 startTime |-> Last(candles').startTime,
                                 source |-> "minute"])>>
          ELSE emitted' = <<>>]_vars

C23_Witness ==
    /\ lastOp.op = "sync"
    /\ lastOp.result
    /\ Len(candles) = MAX_CANDLES
    /\ emitted = <<>>

\* C24: an accepted event that is pushed again, identical, while it is
\* retained is retained again and broadcast again: the list gains one more
\* entry equal to it (the oldest entry leaving when the list is full), and
\* both pushes are in the record of accepted events.
C24_RepeatedEventIsKeptTwice ==
    (/\ lastOp.op = "pushLiquidation"
     /\ acceptsLiquidation(lastOp.item)
     /\ lastOp.item \in Range(lastOp.before)) =>
        /\ emitted = <<Ev("liquidation", lastOp.item)>>
        /\ liquidations = SliceFirst(<<lastOp.item>> \o lastOp.before, MAX_LIQUIDATIONS)
        /\ Cardinality({i \in DOMAIN liquidations : liquidations[i] = lastOp.item})
              = 1 + Cardinality({i \in 1..Min(Len(lastOp.before), MAX_LIQUIDATIONS - 1) :
                                    lastOp.before[i] = lastOp.item})
        /\ Cardinality({i \in DOMAIN accepted : accepted[i] = lastOp.item}) >= 2

C24_Witness ==
    /\ lastOp.op = "pushLiquidation"
    /\ lastOp.before # <<>>
    /\ lastOp.before[1] = lastOp.item
    /\ Len(liquidations) >= 2
    /\ liquidations[1] = lastOp.item
    /\ liquidations[2] = lastOp.item
    /\ emitted = <<Ev("liquidation", lastOp.item)>>

\* C25: a trade payload with an invalid or zero price, or with a missing or
\* non-finite quantity, is rejected: no trade and no price event is
\* broadcast for it and the latest second price is unchanged.
C25_InvalidTradeIsRejected ==
    [][(/\ lastOp'.op = "trade"
        /\ \/ lastOp'.data.p \in {<<>>, <<0>>}
           \/ lastOp'.data.q = <<>>) =>
          /\ emitted' = <<>>
          /\ UNCHANGED <<latestSecondPrice, latestSecondTs>>]_vars

\* C26: a kline payload with a missing or non-numeric startTime, open, high,
\* low or close is rejected: the candle series and latestClose are unchanged
\* and no kline event is broadcast.
C26_InvalidKlineIsRejected ==
    [][\A kline \in WsKlines :
          (/\ <<>> \in {kline.t, kline.o, kline.h, kline.l, kline.c}
           /\ WsKline(kline)) =>
              /\ UNCHANGED <<candles, latestClose>>
              /\ emitted' = <<>>]_vars

\* C27: an upsert from the stream and a resync from REST never interleave
\* partially.  Every change of the series is one whole operation: a resync
\* that took candles leaves REST candles only (nothing of the series it
\* replaces survives), an upsert changes the series by its one candle (all
\* else was there before, at most one candle leaves), and no other step
\* touches the series.  The last candle a periodic resync compares with is
\* the last of the series in the state the resync replaces: with a series
\* held before, it broadcasts exactly when that candle differs from the new
\* last one in startTime, close or volume, and what it broadcasts is the
\* series it leaves.
C27_UpsertAndResyncAreWhole ==
    [][/\ candles' # candles => lastOp'.op \in {"kline", "sync", "listen"}
       /\ (lastOp'.op \in {"sync", "listen"} /\ candles' # candles) =>
              \A i \in DOMAIN candles' : candles'[i].isClosed
       /\ lastOp'.op = "kline" =>
              /\ Range(candles') \subseteq Range(candles) \cup {lastOp'.candle}
              /\ Cardinality(Range(candles) \ Range(candles')) <= 1
              /\ emitted' = <<Ev("kline", lastOp'.candle)>>
       /\ (lastOp'.op = "sync" /\ lastOp'.result /\ candles # <<>>) =>
              /\ emitted' # <<>> <=> LastCandleDiffers(candles, candles')
              /\ emitted' # <<>> => emitted'[1] = Ev("history", candles')]_vars

C27_Witness ==
    /\ lastOp.op = "kline"
    /\ ~lastOp.candle.isClosed
    /\ Len(candles) = MAX_CANDLES
    /\ \E i \in DOMAIN candles : candles[i].isClosed
    /\ \E i \in DOMAIN candles : candles[i] = lastOp.candle

\* How often a bid of that price and size is among the bids kept by the
\* floor, and among the rows
TimesAmongBids(rawBids, price, size) ==
    Cardinality({k \in DOMAIN rawBids :
                    /\ toNumber(rawBids[k][1]) = price
                    /\ toNumber(rawBids[k][2]) = size
                    /\ price > 0
                    /\ size >= MIN_TOP_BUYER_CENTI_BTC})

TimesAmongRows(rows, price, size) ==
    Cardinality({r \in DOMAIN rows : rows[r].price = price /\ rows[r].size = size})

\* C28: for any raw bid list, mapRawBidsToRows returns bids of the list with
\* price > 0 and size >= MIN_TOP_BUYER_BTC, none more often than the list
\* has it, each with notional = price * size, in non-increasing notional
\* order; all of them when they are at most TOP_BUYERS_LIMIT, and otherwise
\* TOP_BUYERS_LIMIT of them such that no bid left out has a larger notional
\* than a row.
C28_RowsAreTopBidsAboveFloor ==
    lastOp.op = "mapRawBidsToRows" =>
        LET rawBids == lastOp.rawBids
            rows == lastOp.rows
            kept == {k \in DOMAIN rawBids :
                        /\ toNumber(rawBids[k][1]) > 0
                        /\ toNumber(rawBids[k][2]) >= MIN_TOP_BUYER_CENTI_BTC}
        IN  /\ Len(rows) = Min(Cardinality(kept), TOP_BUYERS_LIMIT)
            /\ \A r \in DOMAIN rows :
                  /\ rows[r].price > 0
                  /\ rows[r].size >= MIN_TOP_BUYER_CENTI_BTC
                  /\ rows[r].notional = rows[r].price * rows[r].size
                  /\ TimesAmongRows(rows, rows[r].price, rows[r].size)
                        <= TimesAmongBids(rawBids, rows[r].price, rows[r].size)
            /\ \A r, q \in DOMAIN rows : r < q => rows[r].notional >= rows[q].notional
            /\ \A k \in kept :
                  LET price == toNumber(rawBids[k][1])
                      size == toNumber(rawBids[k][2])
                  IN  TimesAmongRows(rows, price, size)
                          < TimesAmongBids(rawBids, price, size)
                      => \A r \in DOMAIN rows : rows[r].notional >= price * size

\* C28's case: more bids pass the floor than a venue's rows hold, two of them
\* tie, and the list is not in notional order.
C28_Witness ==
    /\ lastOp.op = "mapRawBidsToRows"
    /\ Len(lastOp.rawBids) = MaxBids
    /\ Len(lastOp.rows) = TOP_BUYERS_LIMIT
    /\ Cardinality({k \in DOMAIN lastOp.rawBids :
                       TimesAmongBids(lastOp.rawBids, toNumber(lastOp.rawBids[k][1]),
                                      toNumber(lastOp.rawBids[k][2])) > 0})
          > TOP_BUYERS_LIMIT
    /\ toNumber(lastOp.rawBids[1][1]) * toNumber(lastOp.rawBids[1][2])
          < lastOp.rows[1].notional
    /\ \E k \in DOMAIN lastOp.rawBids : toNumber(lastOp.rawBids[k][2]) = 9

\* The messages a subscriber got from its own connection handler, and those
\* of one event among them
Bootstrap(s) == SelectSeq(inbox[s], LAMBDA m : m.via = "socket")
BootstrapData(s, event) ==
    {Bootstrap(s)[i].data : i \in {j \in DOMAIN Bootstrap(s) : Bootstrap(s)[j].event = event}}

\* C29: a subscriber's bootstrap never waits on an upstream fetch or
\* connection: the connection handler can run for an idle subscriber in
\* every state, the initial sync outstanding or sockets down included, and
\* serves the state known when it runs.  history, price and fearGreed are
\* sent exactly when a candle, a price, a sentiment reading is known;
\* topBuyers, liquidations, markets and news are sent always, with their
\* current, possibly empty, rows.
C29_BootstrapNeverWaits ==
    \A s \in Subs :
        /\ subState[s] = "idle" => ENABLED OnConnection(s)
        /\ subState[s] = "streaming" =>
              LET a == snap[s][1]
              IN  /\ BootstrapData(s, "history") =
                        IF a.candles # <<>> THEN {a.candles} ELSE {}
                  /\ BootstrapData(s, "price") # {} <=>
                        (a.latestSecondPrice # None \/ a.latestClose # None)
                  /\ BootstrapData(s, "fearGreed") =
                        IF a.fearGreed # None THEN {a.fearGreed[1]} ELSE {}
                  /\ {d.rows : d \in BootstrapData(s, "topBuyers")} = {a.topBuyers}
                  /\ {d.rows : d \in BootstrapData(s, "liquidations")} = {a.liquidations}
                  /\ {d.rows : d \in BootstrapData(s, "markets")} = {a.markets}
                  /\ {d.rows : d \in BootstrapData(s, "news")}
                        = {SliceFirst(a.newsItems, NEWS_LIMIT)}
                  /\ Len(Bootstrap(s)) =
                        4 + Cardinality({e \in {"history", "price", "fearGreed"} :
                                            BootstrapData(s, e) # {}})

\* C29's case: a subscriber connected while the initial sync was
\* outstanding, with nothing known, and was served the four messages that
\* are always sent, with empty rows.
C29_Witness ==
    /\ phase = "listening"
    /\ subState["s1"] = "streaming"
    /\ snap["s1"][1].candles = <<>>
    /\ [i \in DOMAIN Bootstrap("s1") |-> Bootstrap("s1")[i].event]
          = <<"topBuyers", "liquidations", "markets", "news">>
    /\ \A i \in DOMAIN Bootstrap("s1") : Bootstrap("s1")[i].data.rows = <<>>

\* C30: while the server is not shutting down, a connection that closed is
\* never left with no socket and no reconnect timer pending, whatever the
\* number of consecutive failures, and once the timer's delay has elapsed a
\* new socket is created for that same connection.
C30_ClosedConnectionIsRetried ==
    /\ [](\A c \in Followed :
            (phase = "running" /\ ~isShuttingDown /\ socketVar[c] = "null") =>
                /\ reconnectTimer[c] = Some(backoffDelay(reconnectAttempt[c]))
                /\ timerHandles[c] = 1)
    /\ \A c \in Followed :
          (phase = "running" /\ ~isShuttingDown /\ socketVar[c] = "null")
              ~> (isShuttingDown \/ socketVar[c] = "CONNECTING")

\* C30's case: a connection failed several times in a row without opening
\* and its timer has just created the next socket.
C30_Witness ==
    /\ lastOp = [op |-> "reconnect", conn |-> "bybit"]
    /\ ~isShuttingDown
    /\ closes["bybit"].n >= 3
    /\ reconnectAttempt["bybit"] >= 3
    /\ socketVar["bybit"] = "CONNECTING"
    /\ reconnectTimer["bybit"] = None

\* C31: a candle, once in the series, leaves it only by capacity eviction:
\* whenever a step leaves the series without a candle of a startTime it
\* held, the series is at MAX_CANDLES afterwards and that startTime is older
\* than all it retains.
C31_RemovedOnlyByEviction ==
    [][\A i \in DOMAIN candles :
          (\A j \in DOMAIN candles' : candles'[j].startTime # candles[i].startTime) =>
              /\ Len(candles') = MAX_CANDLES
              /\ \A j \in DOMAIN candles' :
                    candles[i].startTime < candles'[j].startTime]_vars

\* The series cs with the candle c put after its k-th candle
InsertedAt(cs, c, k) == SubSeq(cs, 1, k) \o <<c>> \o SubSeq(cs, k + 1, Len(cs))

\* C32: upsertCandle replaces in place the candle with an equal startTime,
\* length and other candles unchanged, and otherwise inserts the candle in
\* startTime order; an insert into a series of MAX_CANDLES candles drops
\* exactly the candle with the smallest startTime, so a candle older than
\* all retained ones is itself dropped and the series is unchanged.
C32_UpsertReplacesOrInserts ==
    [][lastOp'.op = "kline" =>
          LET c == lastOp'.candle
              same == {i \in DOMAIN candles : candles[i].startTime = c.startTime}
          IN  IF same # {}
              THEN /\ Len(candles') = Len(candles)
                   /\ \E i \in same :
                         candles' = [candles EXCEPT ![i] = c]
              ELSE /\ \E k \in 0..Len(candles) :
                         LET ins == InsertedAt(candles, c, k)
                         IN  /\ \A a, b \in DOMAIN ins :
                                   a < b => ins[a].startTime <= ins[b].startTime
                             /\ candles' = IF Len(candles) = MAX_CANDLES
                                           THEN Tail(ins) ELSE ins
                   /\ (/\ Len(candles) = MAX_CANDLES
                       /\ \A i \in DOMAIN candles :
                             c.startTime < candles[i].startTime)
                         => candles' = candles]_vars

\* C32's case: a candle older than all of a full series was upserted and is
\* not in the series.
C32_Witness ==
    /\ lastOp.op = "kline"
    /\ Len(candles) = MAX_CANDLES
    /\ \A i \in DOMAIN candles : lastOp.candle.startTime < candles[i].startTime
    /\ lastOp.candle.startTime > 0

\* The candidates of a call that are present: the field is on the row
PresentAmong(values) == {i \in DOMAIN values : values[i] # <<>>}

\* The candidates of a call whose number is positive
PositiveAmong(values) == {i \in DOMAIN values : toNumber(values[i]) > 0}

First(S) == CHOOSE i \in S : \A j \in S : i <= j

\* C33 as stated: pickFirstNumber returns the value of the first candidate
\* that is present, and 0 only when no candidate is present.
C33_FirstPresentIsReturned ==
    lastOp.op = "pickFirstNumber" =>
        LET present == PresentAmong(lastOp.values)
        IN  /\ present # {} => lastOp.result = toNumber(lastOp.values[First(present)])
            /\ lastOp.result = 0 => present = {}

\* C33: pickFirstNumber returns, in argument order, the number of the first
\* candidate whose number is positive, and 0 exactly when no candidate has a
\* positive number; a later candidate is never chosen over an earlier one
\* that has a positive number.
C33_FirstPositiveIsReturned ==
    lastOp.op = "pickFirstNumber" =>
        LET positive == PositiveAmong(lastOp.values)
        IN  /\ positive # {} => lastOp.result = toNumber(lastOp.values[First(positive)])
            /\ positive = {} <=> lastOp.result = 0

\* A present zero ahead of a positive candidate: the later one is returned
C33_Witness ==
    /\ lastOp.op = "pickFirstNumber"
    /\ Len(lastOp.values) >= 2
    /\ lastOp.values[1] = <<0>>
    /\ lastOp.values[2] = <<7>>
    /\ lastOp.result = 7

\* C34: in every reachable state the retained liquidation list is ordered
\* by non-increasing event timestamp ts, the most recent event first.
C34_OrderedByEventTime ==
    \A i, j \in DOMAIN liquidations :
        i < j => liquidations[i].ts >= liquidations[j].ts

\* The history fetches that fail or that bring an empty series
FetchesNothing == {Failed, Fetched(<<>>)}

\* C35: when the history fetch fails or returns an empty series, at startup
\* or in a periodic resync, the candle series and latestClose are unchanged,
\* nothing is broadcast, the server goes on running (the error does not
\* propagate) and the periodic resync timer is running afterwards.
C35_FailedFetchChangesNothing ==
    [][\/ /\ candles' = candles
           /\ latestClose' = latestClose
           /\ emitted' = <<>>
           /\ inbox' = inbox
           /\ phase' = "running"
           /\ isShuttingDown' = isShuttingDown
           /\ "historySync" \in intervalTimers'
       \/ ~(\E result \in FetchesNothing :
               HistorySync(result) \/ Listen(result))]_vars

\* A periodic resync has failed on a full series
C35_Witness ==
    /\ lastOp.op = "sync"
    /\ ~lastOp.result
    /\ Len(candles) = MAX_CANDLES
    /\ latestClose # None
    /\ "historySync" \in intervalTimers

\* C36: the published rows and status are never replaced by the results of
\* a refresh that started earlier than the one whose results are published.
C36_EarlierRefreshNeverReplacesLater ==
    [][publishedBy' >= publishedBy]_vars

\* C37: a subscriber that has taken the liquidations bootstrap and applied
\* every liquidation event delivered since holds a list equal to the
\* server's: the same items in the same order.
C37_ClientListEqualsServerList ==
    \A s \in Subs :
        subState[s] = "streaming" => clientLiquidations(inbox[s]) = liquidations

\* C38: in the watchdog, for each service at most one child process runs,
\* it is the one tracked in service.proc, and at most one restart timer is
\* pending, across every interleaving of exits, failed health checks,
\* restart requests and restart-timer firings.
C38_OneChildOneRestartTimer ==
    \A s \in Services :
        /\ Cardinality(watchdog.children[s]) <= 1
        /\ watchdog.service[s].proc # None =>
              watchdog.children[s] = {watchdog.service[s].proc[1]}
        /\ watchdog.timeouts[s] <= 1
        /\ watchdog.service[s].restartTimer <=> watchdog.timeouts[s] = 1

\* A restart was requested of a restarted child: its restart timer is
\* pending while the child, told to stop, has not exited yet
C38_Witness ==
    \E s \in Services :
        /\ watchdog.spawned[s] >= 2
        /\ watchdog.service[s].proc # None
        /\ watchdog.timeouts[s] = 1
        /\ lastOp.op = "healthSettles"

\* C39: once the watchdog's shutdown has begun, no service process is
\* started, and no restart timer is scheduled or left pending, whatever
\* fires afterwards.
C39_NothingRestartsAfterShutdown ==
    [][/\ watchdog'.shuttingDown =>
             \A s \in Services :
                 watchdog'.timeouts[s] = 0 /\ ~watchdog'.service[s].restartTimer
       /\ watchdog.shuttingDown =>
             /\ watchdog'.shuttingDown
             /\ watchdog'.spawned = watchdog.spawned
             /\ \A s \in Services :
                    /\ watchdog'.children[s] \subseteq watchdog.children[s]
                    /\ watchdog.service[s].proc = None => watchdog'.service[s].proc = None]_vars

\* After shutdown began, a child has exited and a health check in flight
\* has failed for the third time in a row
C39_Witness ==
    /\ watchdog.shuttingDown
    /\ lastOp.op = "healthSettles"
    /\ ~lastOp.ok
    /\ watchdog.service[lastOp.service].failStreak = 0
    /\ \E s \in Services : watchdog.service[s].proc = None /\ watchdog.spawned[s] = 1

----------------------------------------------------------------------------
(* Specifications *)

Init ==
    /\ candles = <<>>
    /\ latestClose = None
    /\ latestSecondPrice = None
    /\ latestSecondTs = None
    /\ lastSecondBucket = None
    /\ secondHeartbeatTimer = None
    /\ now = 0
    /\ liquidations = <<>>
    /\ topBuyers = <<>>
    /\ exchangeStatus = <<>>
    /\ topBuyersUpdatedAt = None
    /\ settled = <<>>
    /\ refreshes = <<>>
    /\ publishedBy = 0
    /\ markets = <<>>
    /\ fearGreed = None
    /\ newsItems = <<>>
    /\ socketVar = [c \in Conns |-> "null"]
    /\ orphans = [c \in Conns |-> 0]
    /\ timerHandles = [c \in Conns |-> 0]
    /\ liveOrphans = [c \in Conns |-> 0]
    /\ reconnectAttempt = [c \in Conns |-> 0]
    /\ reconnectTimer = [c \in Conns |-> None]
    /\ intervalTimers = {}
    /\ isShuttingDown = FALSE
    /\ phase = "listening"
    /\ emitted = <<>>
    /\ inbox = [s \in Subs |-> <<>>]
    /\ subState = [s \in Subs |-> "idle"]
    /\ secondData = [candles |-> <<>>, volumes |-> <<>>]
    /\ latestPrice = None
    /\ lastOp = [op |-> "init"]
    /\ watchdog = startService(startService(WatchdogLoaded, "server"), "client")
    /\ accepted = <<>>
    /\ closes = [c \in Conns |-> [n |-> 0, prev |-> 0]]
    /\ snap = [s \in Subs |-> None]
    /\ secondHist = [buckets |-> {}, dup |-> FALSE, ticks |-> 0, tickEmits |-> 0,
                     tickBuckets |-> {}, lastTradeTs |-> None, firstTickAt |-> None]

\* The candle series fed by the kline stream alone (the initial sync failed)
NextUpsert ==
    \/ Listen(Failed)
    \/ Open("main")
    \/ \E kline \in WsKlines : WsKline(kline)

SpecUpsert == Init /\ [][NextUpsert]_vars

\* The candle series fed by the kline stream and the REST resync
NextCandles ==
    \/ \E result \in SyncResults : Listen(result)
    \/ Open("main")
    \/ \E kline \in WsKlines : WsKline(kline)
    \/ \E result \in SyncResults : HistorySync(result)

SpecCandles == Init /\ [][NextCandles]_vars

\* The liquidation feed
NextLiquidations ==
    \/ Listen(Failed)
    \/ \E c \in ForceConns : Open(c)
    \/ \E c \in ForceConns : \E item \in LiqItems(c) : ForceOrder(c, item)

SpecLiquidations == Init /\ [][NextLiquidations]_vars

\* The liquidation feed, of events stamped by the three venues, arriving in
\* any interleaving
NextLiquidationOrder ==
    \/ Listen(Failed)
    \/ \E c \in ForceConns : Open(c)
    \/ \E c \in ForceConns : \E item \in TimedLiqItems(c) : ForceOrder(c, item)

SpecLiquidationOrder == Init /\ [][NextLiquidationOrder]_vars

\* The top-buyers aggregator
NextTopBuyers ==
    \/ Listen(Failed)
    \/ TopBuyersTimerFires
    \/ \E i \in DOMAIN EXCHANGES : \E response \in Responses(i) :
          FetchSettles(i, response)

SpecTopBuyers == Init /\ [][NextTopBuyers]_vars

\* The top-buyers aggregator with refreshes that overlap: the timer starts
\* one while others await their venues, and they resolve in any order
NextTopBuyersOverlap ==
    \/ Listen(Failed)
    \/ TimerStartsRefresh
    \/ \E n \in 1..MaxRefreshes : \E results \in RefreshResults :
          RefreshResolves(n, results)

SpecTopBuyersOverlap == Init /\ [][NextTopBuyersOverlap]_vars

\* The watchdog: exits, health checks, restart timers and signals in any
\* interleaving
NextWatchdog ==
    \/ \E s \in Services : \E child \in 1..MaxSpawns : ChildExits(s, child)
    \/ \E s \in Services : RestartTimerFires(s)
    \/ HealthTimerFires
    \/ \E s \in Services : \E ok \in BOOLEAN : HealthCheckSettles(s, ok)
    \/ WatchdogShutdown
    \/ ProcessExit

SpecWatchdog == Init /\ [][NextWatchdog]_vars

\* The top-buyers aggregator with venues that may never answer
NextTopBuyersHang ==
    \/ NextTopBuyers
    \/ \E i \in DOMAIN EXCHANGES : FetchHangs(i)

SpecTopBuyersHang == Init /\ [][NextTopBuyersHang]_vars

\* The connection supervisor.  All four connections are made; the events of
\* two of them, the main one and one force socket, are followed.
NextConnections ==
    \/ Listen(Failed)
    \/ \E c \in Followed : Open(c)
    \/ \E c \in Followed : SocketClosing(c)
    \/ \E c \in Followed : Close(c)
    \/ \E c \in Followed : OrphanClose(c)
    \/ \E c \in Followed : ReconnectTimerFires(c)
    \/ Shutdown

SpecConnections == Init /\ [][NextConnections]_vars

\* The connection supervisor with timers that fire: a reconnect timer that
\* is pending does not stay pending for ever
SpecReconnect ==
    /\ Init
    /\ [][NextConnections]_vars
    /\ \A c \in Followed : WF_vars(ReconnectTimerFires(c))

\* Two connections failing and recovering while their messages arrive
NextIsolation ==
    \/ Listen(Failed)
    \/ \E c \in Followed : Open(c)
    \/ \E c \in Followed : SocketClosing(c)
    \/ \E c \in Followed : Close(c)
    \/ \E c \in Followed : ReconnectTimerFires(c)
    \/ WsKline(IsolationKline)
    \/ ForceOrder("bybit", LiqItem("bybit", 50000, 2))

SpecIsolation == Init /\ [][NextIsolation]_vars

\* The second price: trades, the heartbeat and the clock
NextSecondPrice ==
    \/ Listen(Failed)
    \/ Open("main")
    \/ \E data \in TradeData : WsTrade(data)
    \/ SecondHeartbeat
    \/ ClockAdvances

SpecSecondPrice == Init /\ [][NextSecondPrice]_vars

\* Subscribers connecting while upstream events arrive
FanOutBudget == \A s \in Subs : Len(inbox[s]) < MaxInbox

NextFanOut ==
    \/ \E result \in {Failed, Fetched(<< << <<60000>>, <<100>>, <<100>>, <<100>>, <<100>>, <<1>> >> >>)} :
          Listen(result)
    \/ \E c \in {"main", "binance"} : Open(c)
    \/ FanOutBudget /\ \E kline \in {k \in WsKlines : k.t = <<120000>> /\ k.c = <<101>>} :
          WsKline(kline)
    \/ FanOutBudget /\ \E data \in {d \in TradeData : d.p = <<100>> /\ d.q # <<>> /\ d.T = <<1400>>} :
          WsTrade(data)
    \/ FanOutBudget /\ ForceOrder("binance", LiqItem("binance", 50000, 2))
    \/ FanOutBudget /\ RefreshFearGreed([value |-> 50, classification |-> "Neutral"])
    \/ \E s \in Subs : OnConnection(s)

SpecFanOut == Init /\ [][NextFanOut]_vars

\* The client's ten-second series, fed by the trade stream and the price poll
NextClientCandles ==
    \/ \E trade \in ClientTrades : onTrade(trade)
    \/ \E payload \in PricePayloads : pollPrice(payload)

SpecClientCandles == Init /\ [][NextClientCandles]_vars

\* The four connections open, with every kind of frame arriving
NextMessages ==
    \/ Listen(Failed)
    \/ \E c \in Conns : Open(c)
    \/ \E c \in Conns : \E raw \in RawMessages(c) : Message(c, raw)

SpecMessages == Init /\ [][NextMessages]_vars

\* mapRawBidsToRows applied to every bid list drawn
NextMapRawBids == \E rawBids \in SeqUpTo(RawBids, MaxBids) : MapRawBids(rawBids)

SpecMapRawBids == Init /\ [][NextMapRawBids]_vars

\* pickFirstNumber applied to every list of candidates drawn
NextPickFirstNumber ==
    \E values \in SeqUpTo(Candidates, MaxCandidates) : PickFirstNumber(values)

SpecPickFirstNumber == Init /\ [][NextPickFirstNumber]_vars

\* Everything together
Next ==
    \/ NextCandles
    \/ NextLiquidations
    \/ NextTopBuyers
    \/ NextConnections
    \/ NextSecondPrice
    \/ NextFanOut
    \/ NextClientCandles
    \/ \E rows \in {<<>>, <<"BTC">>} : RefreshMarkets(rows)
    \/ \E items \in {<<>>, <<"headline">>} : RefreshNews(items)

Spec == Init /\ [][Next]_vars

====
